---- MODULE Spec2Model ----
(***************************************************************************)
(* Model of the event validation lambda (tp-validate-events.py): the       *)
(* schema registry, the coercion engine, the normalizers, the classifier   *)
(* pipeline of _validate_and_normalize and the storage routing of          *)
(* _process_s3_object.                                                     *)
(*                                                                         *)
(* JSON VALUES.  A value is a record with the same seven fields whatever   *)
(* its Python type, so that values of different types can sit in one set:  *)
(*   k   the Python type: "str" "int" "float" "bool" "null" "list" "dict"  *)
(*   sh  the shape of a str or a list (below), "" otherwise                *)
(*   s   the text of a plain str and the zone mark of a timestamp str      *)
(*   n   an int; the numerator of a float over Denom; the wall-clock       *)
(*       seconds of a timestamp str; 1/0 for a bool                        *)
(*   m   the microseconds of a timestamp str                               *)
(*   o   the UTC offset, in seconds, of a timestamp str                    *)
(*   l   the elements of a list; the one value a "repr"/"chars" wraps      *)
(* Shapes of a str:  "text"    a literal text, in s                        *)
(*                   "iso"     YYYY-MM-DDTHH:MM:SS[.ffffff] + zone mark    *)
(*                             s = "Z" | "naive" | "off" (offset in o)     *)
(*                   "isodate" YYYY-MM-DD (n = seconds at midnight)        *)
(*                   "repr"    the text str(l[1]) of an int, float or list *)
(* Shapes of a list: ""        the elements are in l                       *)
(*                   "chars"   the characters of the str l[1]              *)
(***************************************************************************)
EXTENDS Integers, Sequences, FiniteSets, TLC

\* ------------------------------------------------------------------ bounds
\* floats are the rationals n / Denom
Denom == 2
\* how many fields of a well-formed event the environment may alter
MaxMut == 1

\* ------------------------------------------------------------ value makers
Val(k, sh, s, n, m, o, l) == [k |-> k, sh |-> sh, s |-> s, n |-> n, m |-> m, o |-> o, l |-> l]
JStr(s) == Val("str", "text", s, 0, 0, 0, <<>>)
JInt(n) == Val("int", "", "", n, 0, 0, <<>>)
\* the float num / Denom
JFloat(num) == Val("float", "", "", num, 0, 0, <<>>)
JBool(b) == Val("bool", "", "", IF b THEN 1 ELSE 0, 0, 0, <<>>)
JNull == Val("null", "", "", 0, 0, 0, <<>>)
JList(l) == Val("list", "", "", 0, 0, 0, l)
\* the empty JSON object {}
JDict == Val("dict", "", "", 0, 0, 0, <<>>)
\* a timestamp text: wall-clock seconds, microseconds, zone mark, offset
JIso(wall, micro, zone, off) == Val("str", "iso", zone, wall, micro, off, <<>>)
JIsoDate(wall) == Val("str", "isodate", "naive", wall, 0, 0, <<>>)
\* the text Python's str() prints for the int, float or list v
JRepr(v) == Val("str", "repr", "", 0, 0, 0, <<v>>)
\* the list of the characters of the str v
JChars(v) == Val("list", "chars", "", 0, 0, 0, <<v>>)

\* ------------------------------------------------------- Python built-ins
\* str.upper() on the texts of the model (texts not listed have no lower-case letter)
UpperTab ==
    [t \in {"abc", "usd", "us", "euro", "e190", "x1", "web", "success", "maybe",
            "yes", " Yes ", "no", "true", "True", "False", "None", "r1", "v1", "u1",
            "e1", "p1", "s1", "f1", "a@b", "En hora", " On Time ", "delayed",
            "Demorado", "Cancelado", "catalogo", "reserva_creada", "unknown_type",
            "boom", "extraField"} |->
        CASE t = "abc" -> "ABC" [] t = "usd" -> "USD" [] t = "us" -> "US"
          [] t = "euro" -> "EURO" [] t = "e190" -> "E190" [] t = "x1" -> "X1"
          [] t = "web" -> "WEB" [] t = "success" -> "SUCCESS" [] t = "maybe" -> "MAYBE"
          [] t = "yes" -> "YES" [] t = " Yes " -> " YES " [] t = "no" -> "NO"
          [] t = "true" -> "TRUE" [] t = "True" -> "TRUE" [] t = "False" -> "FALSE"
          [] t = "None" -> "NONE" [] t = "r1" -> "R1" [] t = "v1" -> "V1"
          [] t = "u1" -> "U1" [] t = "e1" -> "E1" [] t = "p1" -> "P1"
          [] t = "s1" -> "S1" [] t = "f1" -> "F1" [] t = "a@b" -> "A@B"
          [] t = "En hora" -> "EN HORA" [] t = " On Time " -> " ON TIME "
          [] t = "delayed" -> "DELAYED" [] t = "Demorado" -> "DEMORADO"
          [] t = "Cancelado" -> "CANCELADO" [] t = "catalogo" -> "CATALOGO"
          [] t = "reserva_creada" -> "RESERVA_CREADA"
          [] t = "unknown_type" -> "UNKNOWN_TYPE" [] t = "boom" -> "BOOM"
          [] t = "extraField" -> "EXTRAFIELD"]

\* str.strip().lower() on the texts of the model
StripLowerTab ==
    [t \in {" Yes ", "True", "False", "None", "En hora", " On Time ", "Demorado",
            "Cancelado", "USD", "US1", "E190", "SUCCESS", "TRUE", "extraField"} |->
        CASE t = " Yes " -> "yes" [] t = "True" -> "true" [] t = "False" -> "false"
          [] t = "None" -> "none" [] t = "En hora" -> "en hora"
          [] t = " On Time " -> "on time" [] t = "Demorado" -> "demorado"
          [] t = "Cancelado" -> "cancelado" [] t = "USD" -> "usd" [] t = "US1" -> "us1"
          [] t = "E190" -> "e190" [] t = "SUCCESS" -> "success" [] t = "TRUE" -> "true"
          [] t = "extraField" -> "extrafield"]

\* the texts made of exactly three letters A-Z
ThreeUpperLetters == {"USD", "EUR", "ARS", "ABC"}

\* the texts that contain the character "@"
TextsWithAt == {"a@b", "A@B"}

\* int(x) of a float: truncation toward zero
TruncDiv(num) == IF num >= 0 THEN num \div Denom ELSE -((-num) \div Denom)

\* s.upper() for a str value s
RECURSIVE Upper(_)
Upper(v) ==
    CASE v.sh = "text" -> JStr(IF v.s \in DOMAIN UpperTab THEN UpperTab[v.s] ELSE v.s)
      [] v.sh = "repr" /\ v.l[1].k = "list" /\ v.l[1].sh = "" ->
            JRepr(JList([i \in 1..Len(v.l[1].l) |->
                IF v.l[1].l[i].k = "str" THEN Upper(v.l[1].l[i]) ELSE v.l[1].l[i]]))
      [] OTHER -> v

\* s.strip().lower() for a plain text s, as a text
StripLower(t) == IF t \in DOMAIN StripLowerTab THEN StripLowerTab[t] ELSE t

\* len(x) > 0 for a str or a list; every timestamp or repr text has a character
NonEmpty(v) ==
    CASE v.k = "str" /\ v.sh = "text" -> v.s # ""
      [] v.k = "str" -> TRUE
      [] v.k = "list" /\ v.sh = "chars" -> IF v.l[1].sh = "text" THEN v.l[1].s # "" ELSE TRUE
      [] v.k = "list" -> Len(v.l) > 0
      [] OTHER -> FALSE

\* len() is defined for str, list and dict only
HasLen(v) == v.k \in {"str", "list", "dict"}

\* bool(x): Python truthiness
Truthy(v) ==
    CASE v.k \in {"str", "list"} -> NonEmpty(v)
      [] v.k \in {"int", "float", "bool"} -> v.n # 0
      [] OTHER -> FALSE

\* str(x)
StrOf(v) ==
    CASE v.k = "str" -> v
      [] v.k = "bool" -> JStr(IF v.n = 1 THEN "True" ELSE "False")
      [] v.k = "null" -> JStr("None")
      [] v.k = "dict" -> JStr("{}")
      [] OTHER -> JRepr(v)

\* a str that int() parses, and the int it gives
IsIntText(v) == v.k = "str" /\ v.sh = "repr" /\ v.l[1].k = "int"
\* a str that float() parses
IsFloatText(v) == v.k = "str" /\ v.sh = "repr" /\ v.l[1].k \in {"int", "float"}

\* float(x) as a numerator over Denom; defined when CanFloat(x)
CanFloat(v) == v.k \in {"int", "float", "bool"} \/ IsFloatText(v)
FloatNum(v) ==
    CASE v.k = "float" -> v.n
      [] v.k \in {"int", "bool"} -> v.n * Denom
      [] v.l[1].k = "float" -> v.l[1].n
      [] OTHER -> v.l[1].n * Denom

\* int(x); defined when CanInt(x)
CanInt(v) == v.k \in {"int", "float", "bool"} \/ IsIntText(v)
IntOf(v) ==
    CASE v.k \in {"int", "bool"} -> v.n
      [] v.k = "float" -> TruncDiv(v.n)
      [] OTHER -> v.l[1].n

\* isinstance(v, t) for one type name; a Python bool is an instance of int
IsInstance1(v, t) == v.k = t \/ (t = "int" /\ v.k = "bool")

\* isinstance(v, expected), expected a sequence of type names
IsInstance(v, expected) == \E i \in 1..Len(expected) : IsInstance1(v, expected[i])

\* ------------------------------------------------------------ environment
VARIABLES
    tz,        \* UTC offset (seconds) of the process's local time zone
    src,       \* the source object: [kind |-> "unreadable" | "notjson" | "value" | "dict", ...]
    pc,        \* position in _process_s3_object / _validate_and_normalize
    event,     \* event_data: the envelope, a function from the present keys to values
    errors,    \* the error list
    warnings,  \* the warning list
    status,    \* the ValidationStatus of the result, "none" before it is decided
    now,       \* the clock (UTC seconds) read by the business rules
    puts,      \* the objects written with s3.put_object, in order
    outcome,   \* the outcome records: what _process_s3_object returned, per record
    records,   \* lambda_handler: the records of the batch still to be processed
    request    \* the event a lambda_handler was invoked with

vars == <<tz, src, pc, event, errors, warnings, status, now, puts, outcome, records, request>>

\* ------------------------------------------------------ Utils de tipos
\* the result of a conversion: (value, succeeded)
Res(v, ok) == [v |-> v, ok |-> ok]

\* the bool candidate given a str: the six tokens, else Python truthiness
BoolOfStr(v) ==
    LET t == IF v.sh = "text" THEN StripLower(v.s)
             ELSE IF IsIntText(v) /\ v.l[1].n = 1 THEN "1"
             ELSE IF IsIntText(v) /\ v.l[1].n = 0 THEN "0" ELSE "other"
    IN  IF t \in {"true", "1", "yes"} THEN Res(JBool(TRUE), TRUE)
        ELSE IF t \in {"false", "0", "no"} THEN Res(JBool(FALSE), TRUE)
        ELSE Res(JBool(Truthy(v)), TRUE)

\* list(v): a list is copied, a str gives its characters, {} gives [], the rest raises
ListOf(v) ==
    CASE v.k = "list" -> Res(v, TRUE)
      [] v.k = "str" -> Res(JChars(v), TRUE)
      [] v.k = "dict" -> Res(JList(<<>>), TRUE)
      [] OTHER -> Res(v, FALSE)

_try_one(v, t) ==
    CASE t = "int" ->
            IF v.k = "bool" THEN Res(v, FALSE)
            ELSE IF CanInt(v) THEN Res(JInt(IntOf(v)), TRUE) ELSE Res(v, FALSE)
      [] t = "float" ->
            IF v.k = "bool" THEN Res(v, FALSE)
            ELSE IF CanFloat(v) THEN Res(JFloat(FloatNum(v)), TRUE) ELSE Res(v, FALSE)
      [] t = "bool" ->
            IF v.k = "bool" THEN Res(v, TRUE)
            ELSE IF v.k = "str" THEN BoolOfStr(v)
            ELSE Res(JBool(Truthy(v)), TRUE)
      [] t = "str" -> Res(StrOf(v), TRUE)
      [] OTHER -> ListOf(v)

\* a slip: only the first candidate is tried
GiveUpAfterFirst(value, expected, i) ==
    IF i > Len(expected) THEN Res(value, FALSE)
    ELSE LET r == _try_one(value, expected[i])
         IN  IF r.ok THEN Res(r.v, TRUE) ELSE Res(value, FALSE)

\* the candidates of expected from the i-th on, in order
RECURSIVE CoerceFrom(_, _, _)
CoerceFrom(value, expected, i) ==
    IF i > Len(expected) THEN Res(value, FALSE)
    ELSE LET r == _try_one(value, expected[i])
         IN  IF r.ok THEN Res(r.v, TRUE) ELSE CoerceFrom(value, expected, i + 1)

\* expected is the sequence of the accepted type names (one name for a single type)
_coerce_value(value, expected) == CoerceFrom(value, expected, 1)

_type_names(expected) == expected

\* fromisoformat accepts the timestamp and date texts only
CanParseIso(ts) == ts.k = "str" /\ ts.sh \in {"iso", "isodate"}

\* dt.astimezone(): an aware time is moved to the local zone, a naive one is taken as local
LocalWall(ts) == IF ts.s = "naive" THEN ts.n ELSE ts.n - ts.o + tz

\* [ok |-> FALSE] stands for the ValueError
_normalize_iso_utc(ts) ==
    IF CanParseIso(ts)
    THEN Res(JIso(LocalWall(ts), ts.m, IF tz = 0 THEN "Z" ELSE "off", tz), TRUE)
    ELSE Res(ts, FALSE)

_is_valid_date(value) == value.k = "str" /\ value.sh = "isodate"

_is_valid_currency(value) == value.k = "str" /\ value.sh = "text" /\ value.s \in ThreeUpperLetters

\* a slip: the value is checked as it came
NoUpper(value) == value

\* value.upper()
_normalize_currency(value) == Upper(value)

_is_valid_datetime(value) == _normalize_iso_utc(StrOf(value)).ok

FLIGHT_STATUS_CANONICAL ==
    [t \in {"en hora", "en_hora", "on time", "ontime", "demorado", "delayed", "delay",
            "cancelado", "cancelled"} |->
        CASE t \in {"en hora", "en_hora", "on time", "ontime"} -> "En hora"
          [] t \in {"demorado", "delayed", "delay"} -> "Demorado"
          [] OTHER -> "Cancelado"]

\* Res(v, FALSE) stands for None
_normalize_flight_status(value) ==
    IF value.sh = "text" /\ StripLower(value.s) \in DOMAIN FLIGHT_STATUS_CANONICAL
    THEN Res(JStr(FLIGHT_STATUS_CANONICAL[StripLower(value.s)]), TRUE)
    ELSE Res(value, FALSE)

VALID_AIRCRAFT_TYPES == {"E190", "A330", "B737"}

\* ---------------------------------------------------- Esquemas de Validacion
KnownTypes ==
    {"reserva_creada",
     "pago_aprobado",
     "pago_rechazado",
     "reserva_cancelada",
     "vuelo_cancelado",
     "usuario_registrado",
     "search_metric",
     "catalogo",
     "search.cart.item.added",
     "search.search.performed",
     "reservations.reservation.created",
     "reservations.reservation.updated",
     "flights.flight.created",
     "flights.flight.updated",
     "flights.aircraft_or_airline.updated",
     "payments.payment.status_updated",
     "users.user.created"}

\* EVENT_SCHEMAS[t]: required, optional, types (field, accepted type names) and
\* constraints (field, predicate name), each in the order of the source
EVENT_SCHEMAS ==
    [t \in KnownTypes |->
        CASE t = "reserva_creada" ->
             [required |-> <<"reservaId", "vueloId", "precio", "userId">>,
              optional |-> <<"airlineCode", "origin", "destination", "flightDate", "searchId">>,
              types |-> <<<<"reservaId", <<"str">>>>, <<"vueloId", <<"str">>>>, <<"precio", <<"int", "float">>>>, <<"userId", <<"str">>>>, <<"airlineCode", <<"str">>>>, <<"origin", <<"str">>>>, <<"destination", <<"str">>>>, <<"flightDate", <<"str">>>>, <<"searchId", <<"str">>>>>>,
              constraints |-> <<<<"precio", "float_gt0">>, <<"reservaId", "len_gt0">>, <<"vueloId", "len_gt0">>, <<"userId", "len_gt0">>>>]
          [] t = "pago_aprobado" ->
             [required |-> <<"paymentId", "reservaId", "userId", "amount">>,
              optional |-> <<>>,
              types |-> <<<<"paymentId", <<"str">>>>, <<"reservaId", <<"str">>>>, <<"userId", <<"str">>>>, <<"amount", <<"int", "float">>>>>>,
              constraints |-> <<<<"amount", "float_gt0">>>>]
          [] t = "pago_rechazado" ->
             [required |-> <<"pagoId", "monto", "razon">>,
              optional |-> <<"metodoPago", "intentos", "userId", "reservaId">>,
              types |-> <<<<"pagoId", <<"str">>>>, <<"monto", <<"int", "float">>>>, <<"razon", <<"str">>>>, <<"metodoPago", <<"str">>>>, <<"intentos", <<"int">>>>, <<"userId", <<"str">>>>, <<"reservaId", <<"str">>>>>>,
              constraints |-> <<<<"monto", "float_gt0">>, <<"razon", "len_gt0">>, <<"intentos", "int_ge1_or_none">>>>]
          [] t = "reserva_cancelada" ->
             [required |-> <<"reservaId", "userId", "motivo">>,
              optional |-> <<>>,
              types |-> <<<<"reservaId", <<"str">>>>, <<"userId", <<"str">>>>, <<"motivo", <<"str">>>>>>,
              constraints |-> <<<<"reservaId", "len_gt0">>, <<"userId", "len_gt0">>, <<"motivo", "len_gt0">>>>]
          [] t = "vuelo_cancelado" ->
             [required |-> <<"vueloId", "motivo">>,
              optional |-> <<"fechaCancelacion", "reembolso">>,
              types |-> <<<<"vueloId", <<"str">>>>, <<"motivo", <<"str">>>>, <<"fechaCancelacion", <<"str">>>>, <<"reembolso", <<"bool">>>>>>,
              constraints |-> <<<<"vueloId", "len_gt0">>, <<"motivo", "len_gt0">>>>]
          [] t = "usuario_registrado" ->
             [required |-> <<"userId", "canal">>,
              optional |-> <<"email", "fechaRegistro", "pais">>,
              types |-> <<<<"userId", <<"str">>>>, <<"canal", <<"str">>>>, <<"email", <<"str">>>>, <<"fechaRegistro", <<"str">>>>, <<"pais", <<"str">>>>>>,
              constraints |-> <<<<"userId", "len_gt0">>, <<"canal", "canal">>, <<"email", "email">>>>]
          [] t = "search_metric" ->
             [required |-> <<"flightsFrom", "flightsTo", "dateFrom", "dateTo", "resultsCount", "userId">>,
              optional |-> <<>>,
              types |-> <<<<"flightsFrom", <<"str">>>>, <<"flightsTo", <<"str">>>>, <<"dateFrom", <<"str">>>>, <<"dateTo", <<"str">>>>, <<"resultsCount", <<"int">>>>, <<"userId", <<"str">>>>>>,
              constraints |-> <<<<"flightsFrom", "lenstr_gt0">>, <<"flightsTo", "lenstr_gt0">>, <<"dateFrom", "date">>, <<"dateTo", "date">>, <<"resultsCount", "int_ge0">>, <<"userId", "lenstr_gt0">>>>]
          [] t = "catalogo" ->
             [required |-> <<"id", "id_vuelo", "aerolinea", "origen", "destino", "precio", "moneda", "despegue", "aterrizaje_local", "estado_vuelo", "capacidadAvion", "tipoAvion">>,
              optional |-> <<>>,
              types |-> <<<<"id", <<"int">>>>, <<"id_vuelo", <<"str">>>>, <<"aerolinea", <<"str">>>>, <<"origen", <<"str">>>>, <<"destino", <<"str">>>>, <<"precio", <<"int", "float">>>>, <<"moneda", <<"str">>>>, <<"despegue", <<"str">>>>, <<"aterrizaje_local", <<"str">>>>, <<"estado_vuelo", <<"str">>>>, <<"capacidadAvion", <<"int">>>>, <<"tipoAvion", <<"str">>>>>>,
              constraints |-> <<<<"id", "int_gt0">>, <<"precio", "float_gt0">>, <<"moneda", "currency">>, <<"despegue", "truthy">>, <<"aterrizaje_local", "truthy">>, <<"capacidadAvion", "int_gt0">>>>]
          [] t = "search.cart.item.added" ->
             [required |-> <<"userId", "flightId", "addedAt">>,
              optional |-> <<>>,
              types |-> <<<<"userId", <<"str">>>>, <<"flightId", <<"str">>>>, <<"addedAt", <<"str">>>>>>,
              constraints |-> <<<<"addedAt", "datetime">>>>]
          [] t = "search.search.performed" ->
             [required |-> <<"searchId", "userId", "origin", "destination", "category", "performedAt">>,
              optional |-> <<"departDate", "returnDate", "paxCount">>,
              types |-> <<<<"searchId", <<"str">>>>, <<"userId", <<"str">>>>, <<"origin", <<"str">>>>, <<"destination", <<"str">>>>, <<"category", <<"str">>>>, <<"performedAt", <<"str">>>>, <<"departDate", <<"str">>>>, <<"returnDate", <<"str">>>>, <<"paxCount", <<"int">>>>>>,
              constraints |-> <<<<"performedAt", "datetime">>, <<"departDate", "date_or_falsy">>, <<"returnDate", "date_or_falsy">>, <<"paxCount", "int_ge1_or_none">>>>]
          [] t = "reservations.reservation.created" ->
             [required |-> <<"reservationId", "userId", "flightId", "amount", "currency", "reservedAt">>,
              optional |-> <<>>,
              types |-> <<<<"reservationId", <<"str">>>>, <<"userId", <<"str">>>>, <<"flightId", <<"str">>>>, <<"amount", <<"int", "float">>>>, <<"currency", <<"str">>>>, <<"reservedAt", <<"str">>>>>>,
              constraints |-> <<<<"amount", "float_gt0">>, <<"currency", "currency">>, <<"reservedAt", "datetime">>>>]
          [] t = "reservations.reservation.updated" ->
             [required |-> <<"reservationId", "newStatus">>,
              optional |-> <<"reservationDate", "flightDate">>,
              types |-> <<<<"reservationId", <<"str">>>>, <<"newStatus", <<"str">>>>, <<"reservationDate", <<"str">>>>, <<"flightDate", <<"str">>>>>>,
              constraints |-> <<<<"reservationDate", "datetime_or_falsy">>, <<"flightDate", "datetime_or_falsy">>, <<"newStatus", "lenstr_gt0">>>>]
          [] t = "flights.flight.created" ->
             [required |-> <<"flightId", "flightNumber", "origin", "destination", "aircraftModel", "departureAt", "arrivalAt", "status", "price", "currency">>,
              optional |-> <<>>,
              types |-> <<<<"flightId", <<"str">>>>, <<"flightNumber", <<"str">>>>, <<"origin", <<"str">>>>, <<"destination", <<"str">>>>, <<"aircraftModel", <<"str">>>>, <<"departureAt", <<"str">>>>, <<"arrivalAt", <<"str">>>>, <<"status", <<"str">>>>, <<"price", <<"int", "float">>>>, <<"currency", <<"str">>>>>>,
              constraints |-> <<<<"price", "float_ge0">>, <<"currency", "currency">>, <<"departureAt", "datetime">>, <<"arrivalAt", "datetime">>>>]
          [] t = "flights.flight.updated" ->
             [required |-> <<"flightId", "newStatus">>,
              optional |-> <<"newDepartureAt", "newArrivalAt">>,
              types |-> <<<<"flightId", <<"str">>>>, <<"newStatus", <<"str">>>>, <<"newDepartureAt", <<"str">>>>, <<"newArrivalAt", <<"str">>>>>>,
              constraints |-> <<<<"newDepartureAt", "datetime_or_falsy">>, <<"newArrivalAt", "datetime_or_falsy">>, <<"newStatus", "lenstr_gt0">>>>]
          [] t = "flights.aircraft_or_airline.updated" ->
             [required |-> <<"airlineBrand", "aircraftId", "capacity">>,
              optional |-> <<"seatMapId">>,
              types |-> <<<<"airlineBrand", <<"str">>>>, <<"aircraftId", <<"str">>>>, <<"capacity", <<"int">>>>, <<"seatMapId", <<"str">>>>>>,
              constraints |-> <<<<"capacity", "int_gt0">>>>]
          [] t = "payments.payment.status_updated" ->
             [required |-> <<"paymentId", "reservationId", "userId", "status", "amount", "currency", "updatedAt">>,
              optional |-> <<>>,
              types |-> <<<<"paymentId", <<"str">>>>, <<"reservationId", <<"str">>>>, <<"userId", <<"str">>>>, <<"status", <<"str">>>>, <<"amount", <<"int", "float">>>>, <<"currency", <<"str">>>>, <<"updatedAt", <<"str">>>>>>,
              constraints |-> <<<<"status", "pay_status">>, <<"amount", "float_ge0">>, <<"currency", "currency">>, <<"updatedAt", "datetime">>>>]
          [] t = "users.user.created" ->
             [required |-> <<"userId", "nationalityOrOrigin", "roles", "createdAt">>,
              optional |-> <<>>,
              types |-> <<<<"userId", <<"str">>>>, <<"nationalityOrOrigin", <<"str">>>>, <<"roles", <<"list">>>>, <<"createdAt", <<"str">>>>>>,
              constraints |-> <<<<"roles", "roles">>, <<"createdAt", "datetime">>>>]]

\* the value of a constraint lambda on x: "true", "false" or "raise"
Verdict(b) == IF b THEN "true" ELSE "false"

ConstraintEval(name, x) ==
    CASE name = "float_gt0" -> IF CanFloat(x) THEN Verdict(FloatNum(x) > 0) ELSE "raise"
      [] name = "float_ge0" -> IF CanFloat(x) THEN Verdict(FloatNum(x) >= 0) ELSE "raise"
      [] name = "len_gt0" -> IF HasLen(x) THEN Verdict(NonEmpty(x)) ELSE "raise"
      [] name = "lenstr_gt0" -> Verdict(NonEmpty(StrOf(x)))
      [] name = "int_ge1_or_none" ->
            IF x.k = "null" THEN "true"
            ELSE IF CanInt(x) THEN Verdict(IntOf(x) >= 1) ELSE "raise"
      [] name = "int_gt0" -> IF CanInt(x) THEN Verdict(IntOf(x) > 0) ELSE "raise"
      [] name = "int_ge0" -> IF CanInt(x) THEN Verdict(IntOf(x) >= 0) ELSE "raise"
      [] name = "canal" -> Verdict(StrOf(x).sh = "text" /\ StrOf(x).s \in {"web", "mobile", "api"})
      [] name = "email" ->
            IF ~Truthy(x) THEN "true"
            ELSE IF x.k = "str" THEN Verdict(x.sh = "text" /\ x.s \in TextsWithAt)
            ELSE IF x.k = "list" THEN "false" ELSE "raise"
      [] name = "date" -> Verdict(_is_valid_date(StrOf(x)))
      [] name = "date_or_falsy" -> IF Truthy(x) THEN Verdict(_is_valid_date(StrOf(x))) ELSE "true"
      [] name = "datetime" -> Verdict(_is_valid_datetime(StrOf(x)))
      [] name = "datetime_or_falsy" ->
            IF Truthy(x) THEN Verdict(_is_valid_datetime(StrOf(x))) ELSE "true"
      [] name = "currency" -> Verdict(_is_valid_currency(Upper(StrOf(x))))
      [] name = "truthy" -> Verdict(Truthy(x))
      [] name = "pay_status" ->
            Verdict(Upper(StrOf(x)).sh = "text"
                    /\ Upper(StrOf(x)).s \in {"SUCCESS", "FAILURE", "PENDING", "REFUND"})
      [] OTHER -> Verdict(x.k = "list" /\ NonEmpty(x))

\* ------------------------------------------------------------ diagnostics
\* a message: its fixed text, the field it names ("" if none), the value it quotes
Msg(m, f, p) == [m |-> m, f |-> f, p |-> p]

\* the three lists the classifier works on
St(ev, errs, warns) == [event |-> ev, errors |-> errs, warnings |-> warns]
AddErr(st, msg) == [st EXCEPT !.errors = Append(@, msg)]
AddWarn(st, msg) == [st EXCEPT !.warnings = Append(@, msg)]
\* event_data[f] = v
Put(ev, f, v) == [x \in DOMAIN ev \cup {f} |-> IF x = f THEN v ELSE ev[x]]
SetField(st, f, v) == [st EXCEPT !.event = Put(@, f, v)]
\* event_data.get(f): JNull stands for None
Get(ev, f) == IF f \in DOMAIN ev THEN ev[f] ELSE JNull

\* ------------------------------------------------- _validate_and_normalize
\* str(event_data.get("type")) and the registry lookup
EventType(ev) == StrOf(Get(ev, "type"))
HasSchema(ev) == EventType(ev).sh = "text" /\ EventType(ev).s \in KnownTypes
SchemaOf(ev) == EVENT_SCHEMAS[EventType(ev).s]

\* Required basicos: one message per absent field among type, ts, eventId, in that order
RECURSIVE MissingBasic(_, _, _)
MissingBasic(st, fields, i) ==
    IF i > Len(fields) THEN st
    ELSE MissingBasic(IF fields[i] \in DOMAIN st.event THEN st
                      ELSE AddErr(st, Msg("Missing required field", fields[i], JNull)),
                      fields, i + 1)

\* a slip: the loop over the basic fields breaks at the first absent one
CheckBasicFirst(st) ==
    IF "type" \notin DOMAIN st.event THEN MissingBasic(st, <<"type">>, 1)
    ELSE IF "ts" \notin DOMAIN st.event THEN MissingBasic(st, <<"ts">>, 1)
    ELSE MissingBasic(st, <<"eventId">>, 1)

CheckBasic(st) == MissingBasic(st, <<"type", "ts", "eventId">>, 1)

\* Normalizar timestamp (a Z)
NormalizeTs(st) ==
    LET r == _normalize_iso_utc(StrOf(st.event["ts"]))
    IN  IF r.ok THEN SetField(st, "ts", r.v)
        ELSE AddErr(st, Msg("Invalid timestamp format. Use ISO 8601", "", JNull))

\* a slip: an unknown type is recorded as an error
ErrUnknownType(st) == AddErr(st, Msg("Unknown event type", "", EventType(st.event)))

\* the schema is absent: the warning
WarnUnknownType(st) == AddWarn(st, Msg("Unknown event type", "", EventType(st.event)))

\* 1) Requeridos del tipo
RECURSIVE MissingRequired(_, _, _)
MissingRequired(st, fields, i) ==
    IF i > Len(fields) THEN st
    ELSE MissingRequired(IF fields[i] \in DOMAIN st.event THEN st
                         ELSE AddErr(st, Msg("Missing required field for type", fields[i], JNull)),
                         fields, i + 1)

CheckRequired(st) == MissingRequired(st, SchemaOf(st.event).required, 1)

\* 2) Coercion de tipos + validacion, for one field of the types table
CoerceField(st, field, expected) ==
    IF field \notin DOMAIN st.event THEN st
    ELSE LET r == _coerce_value(st.event[field], expected)
             st1 == IF r.ok THEN SetField(st, field, r.v) ELSE st
         IN  IF ~IsInstance(st1.event[field], expected)
             THEN AddErr(st1, Msg("must be of type", field, JList([j \in 1..Len(expected) |->
                                                           JStr(_type_names(expected)[j])])))
             ELSE st1

RECURSIVE CoerceLoop(_, _, _)
CoerceLoop(st, types, i) ==
    IF i > Len(types) THEN st
    ELSE CoerceLoop(CoerceField(st, types[i][1], types[i][2]), types, i + 1)

CoerceTypes(st) == CoerceLoop(st, SchemaOf(st.event).types, 1)

\* a slip: a predicate that raises is passed over in silence
ConstraintRaisePassed(st, field, name) ==
    IF field \notin DOMAIN st.event THEN st
    ELSE LET c == ConstraintEval(name, st.event[field])
         IN  IF c = "false" THEN AddErr(st, Msg("violates constraint", field, JNull)) ELSE st

\* 3) Constraints, for one field of the constraints table
ConstraintField(st, field, name) ==
    IF field \notin DOMAIN st.event THEN st
    ELSE LET c == ConstraintEval(name, st.event[field])
         IN  CASE c = "true" -> st
               [] c = "false" -> AddErr(st, Msg("violates constraint", field, JNull))
               [] OTHER -> AddErr(st, Msg("Error validating constraint", field, JNull))

RECURSIVE ConstraintLoop(_, _, _)
ConstraintLoop(st, cons, i) ==
    IF i > Len(cons) THEN st
    ELSE ConstraintLoop(ConstraintField(st, cons[i][1], cons[i][2]), cons, i + 1)

CheckConstraints(st) == ConstraintLoop(st, SchemaOf(st.event).constraints, 1)

\* event_data[f] = _normalize_iso_utc(str(event_data[f])), the ValueError recorded
NormTs(st, f) ==
    LET r == _normalize_iso_utc(StrOf(st.event[f]))
    IN  IF r.ok THEN SetField(st, f, r.v) ELSE AddErr(st, Msg("invalid timestamp", f, JNull))

\* if f in event_data: try ... except ValueError
NormTsIfPresent(st, f) == IF f \in DOMAIN st.event THEN NormTs(st, f) ELSE st

\* try: event_data[f] = ... except Exception: an absent key raises KeyError, recorded alike
NormTsIndexed(st, f) ==
    IF f \in DOMAIN st.event THEN NormTs(st, f) ELSE AddErr(st, Msg("invalid timestamp", f, JNull))

\* if f in event_data and event_data[f]: try ... except Exception
NormTsIfTruthy(st, f) ==
    IF f \in DOMAIN st.event /\ Truthy(st.event[f]) THEN NormTs(st, f) ELSE st

\* currency = event_data.get("currency"); if currency: upper-case, store, check
NormCurrency(st) ==
    LET currency == Get(st.event, "currency")
    IN  IF ~Truthy(currency) THEN st
        ELSE LET st1 == SetField(st, "currency", _normalize_currency(currency))
             IN  IF _is_valid_currency(_normalize_currency(currency)) THEN st1
                 ELSE AddErr(st1, Msg("currency must be a valid ISO 4217 code", "currency", JNull))

\* catalogo: moneda
NormMoneda(st) ==
    LET currency == Get(st.event, "moneda")
    IN  IF currency.k = "null" THEN st
        ELSE IF currency.k # "str" THEN AddErr(st, Msg("moneda must be a string", "moneda", JNull))
        ELSE LET st1 == SetField(st, "moneda", _normalize_currency(currency))
             IN  IF _is_valid_currency(_normalize_currency(currency)) THEN st1
                 ELSE AddErr(st1, Msg("moneda must be a valid ISO 4217 code (3 letras)", "moneda", JNull))

\* a slip: an estado_vuelo the table does not know is recorded as an error
EstadoUnknownIsError(st) ==
    LET status_value == Get(st.event, "estado_vuelo")
        r == _normalize_flight_status(StrOf(status_value))
    IN  IF status_value.k = "null" THEN st
        ELSE IF r.ok THEN SetField(st, "estado_vuelo", r.v)
        ELSE AddErr(st, Msg("Unknown estado_vuelo", "estado_vuelo", status_value))

\* catalogo: estado_vuelo
NormEstadoVuelo(st) ==
    LET status_value == Get(st.event, "estado_vuelo")
        r == _normalize_flight_status(StrOf(status_value))
    IN  IF status_value.k = "null" THEN st
        ELSE IF r.ok THEN SetField(st, "estado_vuelo", r.v)
        ELSE AddWarn(st, Msg("Unknown estado_vuelo", "estado_vuelo", status_value))

\* catalogo: tipoAvion
NormTipoAvion(st) ==
    LET aircraft_type == Get(st.event, "tipoAvion")
        normalized_type == Upper(StrOf(aircraft_type))
        st1 == SetField(st, "tipoAvion", normalized_type)
    IN  IF aircraft_type.k = "null" THEN st
        ELSE IF normalized_type.sh = "text" /\ normalized_type.s \in VALID_AIRCRAFT_TYPES THEN st1
        ELSE AddWarn(st1, Msg("Unknown aircraft type", "tipoAvion", normalized_type))

\* search.search.performed: departDate, returnDate
WarnDate(st, f) ==
    IF f \in DOMAIN st.event /\ Truthy(st.event[f]) /\ ~_is_valid_date(StrOf(st.event[f]))
    THEN AddWarn(st, Msg("is not a valid date", f, JNull)) ELSE st

\* the instant (UTC seconds) of a parsed timestamp text that carries a zone
Instant(ts) == ts.n - ts.o

\* flights.flight.created: arrival before departure; any exception is passed over
WarnArrival(st) ==
    LET ev == st.event
    IN  IF /\ "departureAt" \in DOMAIN ev /\ "arrivalAt" \in DOMAIN ev
           /\ CanParseIso(ev["departureAt"]) /\ CanParseIso(ev["arrivalAt"])
           /\ (ev["departureAt"].s = "naive") = (ev["arrivalAt"].s = "naive")
           /\ Instant(ev["arrivalAt"]) < Instant(ev["departureAt"])
        THEN AddWarn(st, Msg("arrivalAt is earlier than departureAt", "arrivalAt", JNull))
        ELSE st

\* flights.aircraft_or_airline.updated: capacity
NormCapacity(st) ==
    LET capacity == Get(st.event, "capacity")
    IN  IF capacity.k = "null" THEN st
        ELSE IF CanInt(capacity) THEN SetField(st, "capacity", JInt(IntOf(capacity)))
        ELSE AddErr(st, Msg("capacity must be integer", "capacity", JNull))

\* payments.payment.status_updated: status
NormPayStatus(st) ==
    LET status_val == Get(st.event, "status")
    IN  IF Truthy(status_val) THEN SetField(st, "status", Upper(StrOf(status_val))) ELSE st

\* users.user.created: roles
NormRoles(st) ==
    LET roles == Get(st.event, "roles")
    IN  IF roles.k = "list" /\ roles.sh = ""
        THEN SetField(st, "roles", JList([j \in 1..Len(roles.l) |-> StrOf(roles.l[j])]))
        ELSE st

\* _normalize_currency is called outside any try: value.upper() raises AttributeError
\* on a truthy currency that is no str, and the exception leaves _validate_and_normalize
NormalizeRaises(st) ==
    LET currency == Get(st.event, "currency")
    IN  /\ EventType(st.event).s \in {"reservations.reservation.created",
                                      "flights.flight.created",
                                      "payments.payment.status_updated"}
        /\ Truthy(currency)
        /\ currency.k # "str"

\* the per-type branch chain
NormalizeByType(st) ==
    LET event_type == EventType(st.event).s
    IN  CASE event_type = "catalogo" ->
               NormTipoAvion(NormEstadoVuelo(NormMoneda(
                   NormTsIfPresent(NormTsIfPresent(st, "despegue"), "aterrizaje_local"))))
          [] event_type = "search.cart.item.added" -> NormTsIndexed(st, "addedAt")
          [] event_type = "search.search.performed" ->
               WarnDate(WarnDate(NormTsIndexed(st, "performedAt"), "departDate"), "returnDate")
          [] event_type = "reservations.reservation.created" ->
               NormTsIndexed(NormCurrency(st), "reservedAt")
          [] event_type = "reservations.reservation.updated" ->
               NormTsIfTruthy(NormTsIfTruthy(st, "reservationDate"), "flightDate")
          [] event_type = "flights.flight.created" ->
               WarnArrival(NormCurrency(
                   NormTsIndexed(NormTsIndexed(st, "departureAt"), "arrivalAt")))
          [] event_type = "flights.flight.updated" ->
               NormTsIfTruthy(NormTsIfTruthy(st, "newDepartureAt"), "newArrivalAt")
          [] event_type = "flights.aircraft_or_airline.updated" -> NormCapacity(st)
          [] event_type = "payments.payment.status_updated" ->
               NormTsIndexed(NormPayStatus(NormCurrency(st)), "updatedAt")
          [] event_type = "users.user.created" -> NormRoles(NormTsIndexed(st, "createdAt"))
          [] OTHER -> st

\* the elements of a sequence, as a set
Range(q) == {q[i] : i \in 1..Len(q)}

\* 4) Warnings por campos inesperados
SystemFields == {"type", "ts", "eventId", "receivedAt", "requestId", "metadata"}

\* a slip: the system fields are not exempted
UnexpectedSystemToo(ev) ==
    LET schema == SchemaOf(ev)
        allowed == Range(schema.required) \cup Range(schema.optional)
    IN  {f \in DOMAIN ev : f \notin allowed /\ f \notin {schema.types[i][1] : i \in 1..Len(schema.types)}}

Unexpected(ev) ==
    LET schema == SchemaOf(ev)
        allowed == Range(schema.required) \cup Range(schema.optional) \cup SystemFields
    IN  {f \in DOMAIN ev : f \notin allowed /\ f \notin {schema.types[i][1] : i \in 1..Len(schema.types)}}

\* the keys are scanned in the envelope's key order, which the model does not keep: the
\* warnings of a set of unexpected keys are appended in one fixed order
RECURSIVE WarnEach(_, _)
WarnEach(st, fs) ==
    IF fs = {} THEN st
    ELSE LET f == CHOOSE x \in fs : TRUE
         IN  WarnEach(AddWarn(st, Msg("Unexpected field for type", f, JNull)), fs \ {f})

ScanUnexpected(st) == WarnEach(st, Unexpected(st.event))

\* 5) Reglas de negocio simples
HourSeconds == 3600
ThirtyDaysSeconds == 86400 * 30
HighPrice == 50000
LargeAmount == 100000

\* a slip: an event outside the freshness window is recorded as an error
FreshnessAsError(st, clock) ==
    LET ts == Get(st.event, "ts")
    IN  IF ~CanParseIso(ts) THEN st
        ELSE IF ts.n - clock > HourSeconds
             THEN AddErr(st, Msg("Event timestamp is more than 1h in the future", "", JNull))
        ELSE IF ts.n - clock < -ThirtyDaysSeconds
             THEN AddErr(st, Msg("Event timestamp is more than 30 days old", "", JNull))
        ELSE st

\* the freshness window: delta = event_time - now, now carrying the zone of event_time
Freshness(st, clock) ==
    LET ts == Get(st.event, "ts")
    IN  IF ~CanParseIso(ts) THEN st
        ELSE IF ts.n - clock > HourSeconds
             THEN AddWarn(st, Msg("Event timestamp is more than 1h in the future", "", JNull))
        ELSE IF ts.n - clock < -ThirtyDaysSeconds
             THEN AddWarn(st, Msg("Event timestamp is more than 30 days old", "", JNull))
        ELSE st

\* a slip: the magnitude checks record errors
MagnitudeAsError(st) ==
    LET event_type == EventType(st.event)
        precio == Get(st.event, "precio")
        monto == Get(st.event, "monto")
    IN  IF event_type = JStr("reserva_creada") /\ CanFloat(precio)
           /\ FloatNum(precio) > HighPrice * Denom
        THEN AddErr(st, Msg("Unusually high ticket price detected", "", JNull))
        ELSE IF event_type = JStr("pago_rechazado") /\ CanFloat(monto)
                /\ FloatNum(monto) > LargeAmount * Denom
        THEN AddErr(st, Msg("Large payment amount detected", "", JNull))
        ELSE st

\* Extra business examples
Magnitude(st) ==
    LET event_type == EventType(st.event)
        precio == Get(st.event, "precio")
        monto == Get(st.event, "monto")
    IN  IF event_type = JStr("reserva_creada") /\ CanFloat(precio)
           /\ FloatNum(precio) > HighPrice * Denom
        THEN AddWarn(st, Msg("Unusually high ticket price detected", "", JNull))
        ELSE IF event_type = JStr("pago_rechazado") /\ CanFloat(monto)
                /\ FloatNum(monto) > LargeAmount * Denom
        THEN AddWarn(st, Msg("Large payment amount detected", "", JNull))
        ELSE st

BusinessRules(st, clock) == Magnitude(Freshness(st, clock))

\* a slip: any diagnostic, warnings included, makes the event invalid
FinalStatusAnyDiagnostic(st) ==
    IF st.errors # <<>> \/ st.warnings # <<>> THEN "invalid" ELSE "valid"

\* status = INVALID if errors else VALID
FinalStatus(st) == IF st.errors # <<>> THEN "invalid" ELSE "valid"

\* the whole function on a JSON object, the clock reading given: the lists and the
\* envelope of the result
_validate_and_normalize(event_data, clock) ==
    LET s0 == CheckBasic(St(event_data, <<>>, <<>>))
        s1 == NormalizeTs(s0)
    IN  IF s0.errors # <<>> THEN s0
        ELSE IF ~HasSchema(event_data) THEN BusinessRules(WarnUnknownType(s1), clock)
        ELSE BusinessRules(ScanUnexpected(NormalizeByType(CheckConstraints(
                 CoerceTypes(CheckRequired(s1))))), clock)

\* the function lets an exception out instead of returning: the per-type normalizer is
\* the only stage with a call outside a try
Raises(event_data) ==
    /\ CheckBasic(St(event_data, <<>>, <<>>)).errors = <<>>
    /\ HasSchema(event_data)
    /\ NormalizeRaises(CheckConstraints(CoerceTypes(CheckRequired(
           NormalizeTs(St(event_data, <<>>, <<>>))))))

\* ------------------------------------------------------- the environment
\* a reference instant (UTC seconds) and the lengths the sample times are built from
DaySeconds == 24 * HourSeconds
Epoch == 20 * DaySeconds

\* the zones a process may run in: UTC, and UTC-03:00
LocalZones == {0, -3 * HourSeconds}

\* the clock readings: the event is fresh, two hours ahead of the clock, 31 days old
Clocks == {Epoch, Epoch - 2 * HourSeconds, Epoch + 31 * DaySeconds}

\* a well-formed event of each type of the registry, and one of a type it does not know
BaseTypes == KnownTypes \cup {"unknown_type"}

BaseEvent(t) ==
    CASE t = "reserva_creada" ->
           [type |-> JStr("reserva_creada"),
            ts |-> JIso(Epoch, 0, "Z", 0),
            eventId |-> JStr("e1"),
            reservaId |-> JStr("r1"),
            vueloId |-> JStr("v1"),
            precio |-> JInt(120),
            userId |-> JStr("u1")]
      [] t = "pago_aprobado" ->
           [type |-> JStr("pago_aprobado"),
            ts |-> JIso(Epoch, 0, "Z", 0),
            eventId |-> JStr("e1"),
            paymentId |-> JStr("p1"),
            reservaId |-> JStr("r1"),
            userId |-> JStr("u1"),
            amount |-> JInt(120)]
      [] t = "pago_rechazado" ->
           [type |-> JStr("pago_rechazado"),
            ts |-> JIso(Epoch, 0, "Z", 0),
            eventId |-> JStr("e1"),
            pagoId |-> JStr("p1"),
            monto |-> JInt(120),
            razon |-> JStr("boom")]
      [] t = "reserva_cancelada" ->
           [type |-> JStr("reserva_cancelada"),
            ts |-> JIso(Epoch, 0, "Z", 0),
            eventId |-> JStr("e1"),
            reservaId |-> JStr("r1"),
            userId |-> JStr("u1"),
            motivo |-> JStr("boom")]
      [] t = "vuelo_cancelado" ->
           [type |-> JStr("vuelo_cancelado"),
            ts |-> JIso(Epoch, 0, "Z", 0),
            eventId |-> JStr("e1"),
            vueloId |-> JStr("v1"),
            motivo |-> JStr("boom"),
            reembolso |-> JBool(TRUE)]
      [] t = "usuario_registrado" ->
           [type |-> JStr("usuario_registrado"),
            ts |-> JIso(Epoch, 0, "Z", 0),
            eventId |-> JStr("e1"),
            userId |-> JStr("u1"),
            canal |-> JStr("web"),
            email |-> JStr("a@b")]
      [] t = "search_metric" ->
           [type |-> JStr("search_metric"),
            ts |-> JIso(Epoch, 0, "Z", 0),
            eventId |-> JStr("e1"),
            flightsFrom |-> JStr("EZE"),
            flightsTo |-> JStr("MAD"),
            dateFrom |-> JIsoDate(Epoch + DaySeconds),
            dateTo |-> JIsoDate(Epoch + 5 * DaySeconds),
            resultsCount |-> JInt(3),
            userId |-> JStr("u1")]
      [] t = "catalogo" ->
           [type |-> JStr("catalogo"),
            ts |-> JIso(Epoch, 0, "Z", 0),
            eventId |-> JStr("e1"),
            id |-> JInt(7),
            id_vuelo |-> JStr("v1"),
            aerolinea |-> JStr("AR"),
            origen |-> JStr("EZE"),
            destino |-> JStr("MAD"),
            precio |-> JInt(120),
            moneda |-> JStr("USD"),
            despegue |-> JIso(Epoch + DaySeconds, 0, "Z", 0),
            aterrizaje_local |-> JIso(Epoch + DaySeconds + 2 * HourSeconds, 0, "Z", 0),
            estado_vuelo |-> JStr("En hora"),
            capacidadAvion |-> JInt(100),
            tipoAvion |-> JStr("E190")]
      [] t = "search.cart.item.added" ->
           [type |-> JStr("search.cart.item.added"),
            ts |-> JIso(Epoch, 0, "Z", 0),
            eventId |-> JStr("e1"),
            userId |-> JStr("u1"),
            flightId |-> JStr("f1"),
            addedAt |-> JIso(Epoch, 0, "Z", 0)]
      [] t = "search.search.performed" ->
           [type |-> JStr("search.search.performed"),
            ts |-> JIso(Epoch, 0, "Z", 0),
            eventId |-> JStr("e1"),
            searchId |-> JStr("s1"),
            userId |-> JStr("u1"),
            origin |-> JStr("EZE"),
            destination |-> JStr("MAD"),
            category |-> JStr("boom"),
            performedAt |-> JIso(Epoch, 0, "Z", 0)]
      [] t = "reservations.reservation.created" ->
           [type |-> JStr("reservations.reservation.created"),
            ts |-> JIso(Epoch, 0, "Z", 0),
            eventId |-> JStr("e1"),
            reservationId |-> JStr("r1"),
            userId |-> JStr("u1"),
            flightId |-> JStr("f1"),
            amount |-> JInt(120),
            currency |-> JStr("USD"),
            reservedAt |-> JIso(Epoch, 0, "Z", 0)]
      [] t = "reservations.reservation.updated" ->
           [type |-> JStr("reservations.reservation.updated"),
            ts |-> JIso(Epoch, 0, "Z", 0),
            eventId |-> JStr("e1"),
            reservationId |-> JStr("r1"),
            newStatus |-> JStr("PAID")]
      [] t = "flights.flight.created" ->
           [type |-> JStr("flights.flight.created"),
            ts |-> JIso(Epoch, 0, "Z", 0),
            eventId |-> JStr("e1"),
            flightId |-> JStr("f1"),
            flightNumber |-> JStr("AR1"),
            origin |-> JStr("EZE"),
            destination |-> JStr("MAD"),
            aircraftModel |-> JStr("E190"),
            departureAt |-> JIso(Epoch + DaySeconds, 0, "Z", 0),
            arrivalAt |-> JIso(Epoch + DaySeconds + 2 * HourSeconds, 0, "Z", 0),
            status |-> JStr("En hora"),
            price |-> JInt(120),
            currency |-> JStr("USD")]
      [] t = "flights.flight.updated" ->
           [type |-> JStr("flights.flight.updated"),
            ts |-> JIso(Epoch, 0, "Z", 0),
            eventId |-> JStr("e1"),
            flightId |-> JStr("f1"),
            newStatus |-> JStr("Demorado")]
      [] t = "flights.aircraft_or_airline.updated" ->
           [type |-> JStr("flights.aircraft_or_airline.updated"),
            ts |-> JIso(Epoch, 0, "Z", 0),
            eventId |-> JStr("e1"),
            airlineBrand |-> JStr("AR"),
            aircraftId |-> JStr("E190"),
            capacity |-> JInt(100)]
      [] t = "payments.payment.status_updated" ->
           [type |-> JStr("payments.payment.status_updated"),
            ts |-> JIso(Epoch, 0, "Z", 0),
            eventId |-> JStr("e1"),
            paymentId |-> JStr("p1"),
            reservationId |-> JStr("r1"),
            userId |-> JStr("u1"),
            status |-> JStr("SUCCESS"),
            amount |-> JInt(120),
            currency |-> JStr("USD"),
            updatedAt |-> JIso(Epoch, 0, "Z", 0)]
      [] t = "users.user.created" ->
           [type |-> JStr("users.user.created"),
            ts |-> JIso(Epoch, 0, "Z", 0),
            eventId |-> JStr("e1"),
            userId |-> JStr("u1"),
            nationalityOrOrigin |-> JStr("AR"),
            roles |-> JList(<<JStr("web")>>),
            createdAt |-> JIso(Epoch, 0, "Z", 0)]
      [] t = "unknown_type" ->
           [type |-> JStr("unknown_type"),
            ts |-> JIso(Epoch, 0, "Z", 0),
            eventId |-> JStr("e1"),
            precio |-> JRepr(JFloat(12 * Denom + 1)),
            moneda |-> JStr("usd")]

\* the values the environment may put in a field
Pool ==
    {JStr(""), JStr("abc"), JStr("usd"), JStr(" Yes "), JStr(" On Time "),
     JInt(-5), JInt(HighPrice + 1), JFloat(120 * Denom + 1), JFloat(1),
     JRepr(JFloat(12 * Denom + 1)), JBool(TRUE), JNull, JDict,
     JList(<<JStr("abc"), JInt(1)>>),
     JIso(Epoch, 123456, "off", -3 * HourSeconds),
     JIso(Epoch, 0, "naive", 0),
     JIsoDate(Epoch - DaySeconds)}

\* the keys the environment may alter in an event of a type: its own, the three
\* universal ones, the declared optional ones, an undeclared one, a system field, and
\* the key under which _process_s3_object puts its own block
AlterableKeys(ev) ==
    DOMAIN ev \cup {"type", "ts", "eventId", "extraField", "metadata", "validation"}
    \cup (IF HasSchema(ev) THEN Range(SchemaOf(ev).optional) ELSE {})

\* the source object: unreadable, not JSON, a JSON value that is no object, a JSON object
Source(kind, ev, altered) == [kind |-> kind, ev |-> ev, altered |-> altered]

\* the envelope without the key f
Without(ev, f) == [x \in DOMAIN ev \ {f} |-> ev[x]]

\* the empty JSON object
EmptyEvent == [x \in {} |-> JNull]

InitialSources ==
    {Source(k, EmptyEvent, {}) : k \in {"unreadable", "notjson", "nondict", "dict"}}
    \cup {Source("dict", BaseEvent(t), {}) : t \in BaseTypes}

\* an outcome record of _process_s3_object (or of lambda_handler's except branch)
Outcome(st, error, errs, warns, id) ==
    [status |-> st, error |-> error, errors |-> errs, warnings |-> warns, eventId |-> id]

\* an object written with put_object
Object(bucket, ext, format, envelope, diag) ==
    [bucket |-> bucket, type |-> StrOf(IF "type" \in DOMAIN envelope THEN envelope["type"] ELSE JStr("unknown")),
     id |-> StrOf(IF "eventId" \in DOMAIN envelope THEN envelope["eventId"] ELSE JStr("unknown")),
     ext |-> ext, format |-> format, envelope |-> envelope, diag |-> diag]

\* the diagnostics block: validation / validationResult
Diag(st, errs, warns) ==
    [status |-> st, errors |-> errs, warnings |-> warns, by |-> "tp-validate-events"]

\* the event of an invocation: its form (the key that holds the references) and the
\* references it lists
Request(form, refs) == [form |-> form, refs |-> refs]

Init ==
    /\ tz \in LocalZones
    /\ src \in InitialSources
    /\ pc = "upload"
    /\ event = EmptyEvent
    /\ errors = <<>>
    /\ warnings = <<>>
    /\ status = "none"
    /\ now = Epoch
    /\ puts = <<>>
    /\ outcome = <<>>
    /\ records = <<>>
    /\ request = Request("single", <<>>)

\* the producer of the source object sets one key of it, before the object is read
Alter ==
    /\ pc = "upload" /\ src.kind = "dict" /\ Cardinality(src.altered) < MaxMut
    /\ \E f \in AlterableKeys(src.ev) \ src.altered : \E v \in Pool :
          src' = Source("dict", Put(src.ev, f, v), src.altered \cup {f})
    /\ UNCHANGED <<request, records, tz, pc, event, errors, warnings, status, now, puts, outcome>>

\* the producer leaves one key out
Drop ==
    /\ pc = "upload" /\ src.kind = "dict" /\ Cardinality(src.altered) < MaxMut
    /\ \E f \in DOMAIN src.ev \ src.altered :
          src' = Source("dict", Without(src.ev, f), src.altered \cup {f})
    /\ UNCHANGED <<request, records, tz, pc, event, errors, warnings, status, now, puts, outcome>>

\* _process_s3_object: get_object + json.loads; a failure returns at once
GetObject ==
    /\ pc = "upload"
    /\ IF src.kind \in {"unreadable", "notjson"}
       THEN /\ pc' = "returned"
            /\ outcome' = <<Outcome("corrupted", "read/parse", <<>>, <<>>, JStr("unknown"))>>
            /\ event' = event
       ELSE /\ pc' = "validate"
            /\ event' = src.ev
            /\ outcome' = outcome
    /\ UNCHANGED <<request, records, tz, src, errors, warnings, status, now, puts>>

\* the work lists as one record, and their assignment
Cur == St(event, errors, warnings)
Becomes(st) == event' = st.event /\ errors' = st.errors /\ warnings' = st.warnings

\* _validate_and_normalize: a payload that is no JSON object
CheckPayload ==
    /\ pc = "validate"
    /\ IF src.kind = "nondict"
       THEN /\ Becomes(St(EmptyEvent, <<Msg("Payload is not JSON object", "", JNull)>>, <<>>))
            /\ status' = "corrupted"
            /\ pc' = "store"
       ELSE /\ Becomes(Cur)
            /\ status' = status
            /\ pc' = "basic"
    /\ UNCHANGED <<request, records, tz, src, now, puts, outcome>>

\* Required basicos, and the early return
RequiredBasic ==
    /\ pc = "basic"
    /\ Becomes(CheckBasic(Cur))
    /\ IF CheckBasic(Cur).errors # <<>>
       THEN status' = "invalid" /\ pc' = "store"
       ELSE status' = status /\ pc' = "ts"
    /\ UNCHANGED <<request, records, tz, src, now, puts, outcome>>

TsStep ==
    /\ pc = "ts"
    /\ Becomes(NormalizeTs(Cur))
    /\ pc' = "schema"
    /\ UNCHANGED <<request, records, tz, src, status, now, puts, outcome>>

SchemaStep ==
    /\ pc = "schema"
    /\ IF HasSchema(event)
       THEN Becomes(Cur) /\ pc' = "required"
       ELSE Becomes(WarnUnknownType(Cur)) /\ pc' = "business"
    /\ UNCHANGED <<request, records, tz, src, status, now, puts, outcome>>

RequiredStep ==
    /\ pc = "required"
    /\ Becomes(CheckRequired(Cur))
    /\ pc' = "coerce"
    /\ UNCHANGED <<request, records, tz, src, status, now, puts, outcome>>

CoerceStep ==
    /\ pc = "coerce"
    /\ Becomes(CoerceTypes(Cur))
    /\ pc' = "constraints"
    /\ UNCHANGED <<request, records, tz, src, status, now, puts, outcome>>

ConstraintStep ==
    /\ pc = "constraints"
    /\ Becomes(CheckConstraints(Cur))
    /\ pc' = "normalize"
    /\ UNCHANGED <<request, records, tz, src, status, now, puts, outcome>>

\* the per-type normalizer; an exception it lets out ends the record in lambda_handler's
\* except branch, with nothing written
NormalizeStep ==
    /\ pc = "normalize"
    /\ IF NormalizeRaises(Cur)
       THEN /\ Becomes(Cur)
            /\ pc' = "raised"
            /\ outcome' = <<Outcome("error", "validate", <<>>, <<>>, JStr("unknown"))>>
       ELSE /\ Becomes(NormalizeByType(Cur))
            /\ pc' = "unexpected"
            /\ outcome' = outcome
    /\ UNCHANGED <<request, records, tz, src, status, now, puts>>

UnexpectedStep ==
    /\ pc = "unexpected"
    /\ Becomes(ScanUnexpected(Cur))
    /\ pc' = "business"
    /\ UNCHANGED <<request, records, tz, src, status, now, puts, outcome>>

BusinessStep ==
    /\ pc = "business"
    /\ \E clock \in Clocks :
          /\ now' = clock
          /\ Becomes(BusinessRules(Cur, clock))
    /\ pc' = "classify"
    /\ UNCHANGED <<request, records, tz, src, status, puts, outcome>>

Classify ==
    /\ pc = "classify"
    /\ status' = FinalStatus(Cur)
    /\ pc' = "store"
    /\ UNCHANGED <<request, records, tz, src, event, errors, warnings, now, puts, outcome>>

\* the record returned after the store
Returned ==
    Outcome(status, "", errors, warnings,
            StrOf(IF "eventId" \in DOMAIN event THEN event["eventId"] ELSE JStr("unknown")))

\* lambda_handler's except branch: the outcome of a record whose processing raised
Raised == Outcome("error", "put_object", <<>>, <<>>, JStr("unknown"))

\* a slip: the fallback is not in the except branch, it runs after the parquet write too
StoreValidTwice ==
    /\ pc = "store" /\ status = "valid"
    /\ \E way \in {"parquet", "json", "raise"} :
          /\ puts' = CASE way = "raise" -> puts
                       [] way = "json" ->
                            Append(puts, Object("curated", "json", "json", event,
                                                Diag(status, errors, warnings)))
                       [] OTHER ->
                            puts \o <<Object("curated", "parquet", "parquet", event,
                                              Diag(status, errors, warnings)),
                                       Object("curated", "json", "json", event,
                                              Diag(status, errors, warnings))>>
          /\ outcome' = <<IF way = "raise" THEN Raised ELSE Returned>>
    /\ pc' = "returned"
    /\ UNCHANGED <<request, records, tz, src, event, errors, warnings, status, now>>

\* _store_valid_event: parquet, or the JSON fallback when parquet is unavailable or its
\* write raised; a failure of the fallback write is raised to the caller
StoreValid ==
    /\ pc = "store" /\ status = "valid"
    /\ \E way \in {"parquet", "json", "raise"} :
          /\ puts' = IF way = "raise" THEN puts
                     ELSE Append(puts, Object("curated", way, way, event,
                                              Diag(status, errors, warnings)))
          /\ outcome' = <<IF way = "raise" THEN Raised ELSE Returned>>
    /\ pc' = "returned"
    /\ UNCHANGED <<request, records, tz, src, event, errors, warnings, status, now>>

\* _store_invalid_event: a JSON document in the quarantine bucket, or the write raises
StoreInvalid ==
    /\ pc = "store" /\ status # "valid"
    /\ \E ok \in BOOLEAN :
          /\ puts' = IF ok THEN Append(puts, Object("invalid", "json", "json", event,
                                                    Diag(status, errors, warnings)))
                     ELSE puts
          /\ outcome' = <<IF ok THEN Returned ELSE Raised>>
    /\ pc' = "returned"
    /\ UNCHANGED <<request, records, tz, src, event, errors, warnings, status, now>>

Next ==
    \/ Alter \/ Drop \/ GetObject \/ CheckPayload \/ RequiredBasic \/ TsStep
    \/ SchemaStep \/ RequiredStep \/ CoerceStep \/ ConstraintStep \/ NormalizeStep
    \/ UnexpectedStep \/ BusinessStep \/ Classify \/ StoreValid \/ StoreInvalid

Spec == Init /\ [][Next]_vars

\* ------------------------------------------------------------ properties
\* the universal fields absent from the source object
MissingUniversal == {"type", "ts", "eventId"} \ DOMAIN src.ev

\* the source is a JSON object with the three universal fields
Enveloped == src.kind = "dict" /\ MissingUniversal = {}

\* the positions after the classification of _validate_and_normalize
Classified == pc \in {"store", "returned"}

\* the positions after the normalization of ts
AfterTs ==
    {"schema", "required", "coerce", "constraints", "normalize", "unexpected", "business",
     "classify", "store", "returned"}

\* the positions of the schema-specific stages
SchemaStages == {"required", "coerce", "constraints", "normalize", "unexpected"}

\* the accepted type names of field f in the types table of the event's schema
ExpectedOf(ev, f) ==
    LET types == SchemaOf(ev).types
    IN  IF \E i \in 1..Len(types) : types[i][1] = f
        THEN types[CHOOSE i \in 1..Len(types) : types[i][1] = f][2]
        ELSE <<>>

\* the step-by-step run and the function as a whole agree on the result
PipelineAgrees ==
    (pc = "classify" /\ src.kind = "dict") => Cur = _validate_and_normalize(src.ev, now)

\* C1: whenever _validate_and_normalize has decided a status, the status is valid
\* if and only if the error list is empty (so invalid and corrupted results always
\* carry at least one error).
C1_StatusIffNoErrors == status # "none" => ((status = "valid") <=> (errors = <<>>))

\* C1 witness: an invalid result that carries both errors and warnings.
C1_Witness == pc = "store" /\ status = "invalid" /\ errors # <<>> /\ warnings # <<>>

\* C2: a JSON object that lacks a universal field is classified invalid at once: one
\* "Missing required field" message per absent field and nothing else, no
\* warning, the envelope untouched, and no later stage is ever entered.
C2_MissingUniversalShortCircuits ==
    (src.kind = "dict" /\ MissingUniversal # {}) =>
        /\ pc \in {"upload", "validate", "basic", "store", "returned"}
        /\ Classified =>
              /\ status = "invalid"
              /\ warnings = <<>>
              /\ event = src.ev
              /\ Len(errors) = Cardinality(MissingUniversal)
              /\ \A f \in MissingUniversal : Msg("Missing required field", f, JNull) \in Range(errors)

\* C2 witness: only eventId is absent, in a process whose zone would have rewritten ts,
\* and the one-message result has been returned.
C2_Witness ==
    /\ pc = "store" /\ src.kind = "dict" /\ MissingUniversal = {"eventId"} /\ tz # 0
    /\ errors = <<Msg("Missing required field", "eventId", JNull)>>

\* the value of field f after the coercion stage, computed from the source object
Coerced(f) ==
    LET r == _coerce_value(src.ev[f], ExpectedOf(src.ev, f))
    IN  IF r.ok THEN r.v ELSE src.ev[f]

\* the predicate names of the constraints the schema puts on field f
ConstraintsOn(f) ==
    LET cons == SchemaOf(src.ev).constraints
    IN  {cons[i][2] : i \in {j \in 1..Len(cons) : cons[j][1] = f}}

\* field f of the source object has a problem of its own: a required field is absent,
\* the coercion engine reports failure, a constraint does not hold of the coerced
\* value, or ts cannot be parsed
HasProblem(f) ==
    \/ f \in Range(SchemaOf(src.ev).required) \ DOMAIN src.ev
    \/ /\ f \in DOMAIN src.ev /\ ExpectedOf(src.ev, f) # <<>>
       /\ \/ ~_coerce_value(src.ev[f], ExpectedOf(src.ev, f)).ok
          \/ \E c \in ConstraintsOn(f) : ConstraintEval(c, Coerced(f)) # "true"
    \/ f = "ts" /\ ~_is_valid_datetime(src.ev["ts"])

\* the error list holds a message about field f
Reported(f) ==
    \E e \in Range(errors) :
        e.f = f \/ (f = "ts" /\ e.m = "Invalid timestamp format. Use ISO 8601")

\* the fields an event of a known type may have a problem in
ProblemFields == DOMAIN src.ev \cup Range(SchemaOf(src.ev).required)

\* C3: for an event with the universal fields and a known type, every field that has
\* a problem of its own has a message in the final error list.
C3_EveryProblemReported ==
    (Classified /\ Enveloped /\ HasSchema(src.ev)) =>
        \A f \in ProblemFields : HasProblem(f) => Reported(f)

\* the same, the booleans the coercion engine refuses left aside: every other problem
\* is reported, whatever the other fields hold
EveryProblemButRefusedBoolReported ==
    (Classified /\ Enveloped /\ HasSchema(src.ev)) =>
        \A f \in ProblemFields :
            (HasProblem(f) /\ ~(f \in DOMAIN src.ev /\ src.ev[f].k = "bool")) => Reported(f)

\* ts of the source object is a text the normalization accepts
TsAccepted == Enveloped /\ CanParseIso(StrOf(src.ev["ts"]))

\* a timestamp text in canonical form: UTC, whole seconds, "Z"
Canonical(v) == v.k = "str" /\ v.sh = "iso" /\ v.s = "Z" /\ v.m = 0 /\ v.o = 0

\* C4: once the normalization of ts has succeeded, ts is in UTC, has no fraction of a
\* second and ends in "Z" (stated for a process whose own zone is UTC).
C4_NormalizedTsIsCanonical ==
    (tz = 0 /\ TsAccepted /\ pc \in AfterTs) => Canonical(event["ts"])

\* C5: the normalizations are fixed points, so that running _validate_and_normalize
\* on the envelope it returned leaves every field as it is (stated for a process
\* whose own zone is UTC).
C5_RerunLeavesEnvelope ==
    (tz = 0 /\ Classified /\ src.kind = "dict") =>
        _validate_and_normalize(event, now).event = event

\* the normalizers taken one by one are fixed points on canonical values (in a process
\* whose zone is UTC, for the timestamp)
NormalizersFixCanonical ==
    /\ \A t \in {"En hora", "Demorado", "Cancelado"} :
          _normalize_flight_status(JStr(t)) = Res(JStr(t), TRUE)
    /\ \A c \in ThreeUpperLetters : _normalize_currency(JStr(c)) = JStr(c)
    /\ (tz = 0 /\ TsAccepted /\ pc \in AfterTs /\ Canonical(event["ts"])) =>
          _normalize_iso_utc(event["ts"]) = Res(event["ts"], TRUE)

\* the fields of the source object whose accepted types are numeric and exclude bool
NumericFields ==
    {f \in DOMAIN src.ev :
        /\ Range(ExpectedOf(src.ev, f)) \cap {"int", "float"} # {}
        /\ "bool" \notin Range(ExpectedOf(src.ev, f))}

\* C6: a boolean in a numeric field is refused by the coercion engine, and the
\* classifier records a type-mismatch error for the field, so the event is invalid.
C6_BoolInNumericFieldIsError ==
    (Classified /\ Enveloped /\ HasSchema(src.ev)) =>
        \A f \in NumericFields :
            src.ev[f].k = "bool" =>
                /\ _coerce_value(src.ev[f], ExpectedOf(src.ev, f)) = Res(src.ev[f], FALSE)
                /\ status = "invalid"
                /\ \E e \in Range(errors) : e.m = "must be of type" /\ e.f = f

\* the texts the bool candidate recognizes, after strip().lower()
BoolTokens == {"true", "1", "yes", "false", "0", "no"}

\* C7: given a text that is none of the six tokens, the bool candidate fails:
\* _coerce_value(value, bool) is (value, false). Stated of the values the coercion
\* stage is about to convert.
C7_BoolCandidateRefusesOtherText ==
    (pc = "coerce") =>
        \A f \in DOMAIN event :
            (/\ ExpectedOf(event, f) = <<"bool">>
             /\ event[f].k = "str" /\ event[f].sh = "text"
             /\ StripLower(event[f].s) \notin BoolTokens)
            => _coerce_value(event[f], <<"bool">>) = Res(event[f], FALSE)

\* the texts of the two freshness warnings
FreshnessTexts ==
    {"Event timestamp is more than 1h in the future", "Event timestamp is more than 30 days old"}

\* C8: an event of a type the registry does not know, with the universal fields and a
\* parseable ts, is valid: it carries the "Unknown event type" warning, no
\* schema-specific stage is entered, no other diagnostic than a freshness warning
\* is added, and no field other than ts is changed.
C8_UnknownTypeTolerated ==
    (TsAccepted /\ ~HasSchema(src.ev)) =>
        /\ pc \notin SchemaStages
        /\ Classified =>
              /\ status = "valid"
              /\ errors = <<>>
              /\ Msg("Unknown event type", "", EventType(src.ev)) \in Range(warnings)
              /\ \A w \in Range(warnings) : w.m \in FreshnessTexts \cup {"Unknown event type"}
              /\ DOMAIN event = DOMAIN src.ev
              /\ \A f \in DOMAIN event \ {"ts"} : event[f] = src.ev[f]

\* C8 witness: a classified event of an unknown type whose payload holds fields a
\* schema would have rewritten, and whose ts was rewritten.
C8_Witness ==
    /\ pc = "store" /\ TsAccepted /\ ~HasSchema(src.ev) /\ status = "valid"
    /\ "precio" \in DOMAIN event /\ event["precio"].k = "str"
    /\ event["ts"] # src.ev["ts"]

\* C9: the business-rule stage appends to the warning list only: it leaves the error
\* list and the envelope as they are, so the status decided after it is the one
\* the lists had before it.
C9_BusinessRulesOnlyWarn ==
    [][pc = "business" =>
          /\ errors' = errors
          /\ event' = event
          /\ Len(warnings') >= Len(warnings)
          /\ SubSeq(warnings', 1, Len(warnings)) = warnings
          /\ FinalStatus(Cur') = FinalStatus(Cur)]_vars

\* C9 witness: the stage has added a magnitude warning and a freshness warning to an
\* event that stays valid.
C9_Witness ==
    /\ pc = "store" /\ status = "valid"
    /\ \E w \in Range(warnings) : w.m = "Unusually high ticket price detected"
    /\ \E w \in Range(warnings) : w.m \in FreshnessTexts

\* C10: every returned outcome that is invalid or corrupted has its envelope and its
\* diagnostics block written to the quarantine bucket, and every valid one has a
\* record written to the curated bucket.
C10_EveryOutcomeIsWritten ==
    (pc = "returned") =>
        \A i \in 1..Len(outcome) :
            /\ outcome[i].status \in {"invalid", "corrupted"} =>
                  \E j \in 1..Len(puts) :
                      /\ puts[j].bucket = "invalid"
                      /\ puts[j].diag.status = outcome[i].status
            /\ outcome[i].status = "valid" =>
                  \E j \in 1..Len(puts) : puts[j].bucket = "curated"

\* whenever the source object was read and parsed, the outcome is written as C10 says
ParsedOutcomeIsWritten ==
    (pc = "returned" /\ src.kind \in {"nondict", "dict"}) =>
        \A i \in 1..Len(outcome) :
            /\ outcome[i].status \in {"invalid", "corrupted"} =>
                  \E j \in 1..Len(puts) :
                      /\ puts[j].bucket = "invalid"
                      /\ puts[j].envelope = event
                      /\ puts[j].diag = Diag(outcome[i].status, errors, warnings)
            /\ outcome[i].status = "valid" =>
                  \E j \in 1..Len(puts) : puts[j].bucket = "curated"

\* ------------------------------------------ lambda_handler: a batch of records
\* the most references an invocation lists
MaxBatch == 2

\* the day (since the epoch of the clock) a clock reading falls on
DayOf(clock) == clock \div DaySeconds

\* the keys of the source objects in the raw bucket
SourceKeys == {"gone", "text", "list", "ok", "loose", "partial", "bad", "dotted"}

\* the date prefixes that start a segment of a source key: "loose" has none, "partial"
\* has year= and month= but no day=, the other keys have the three
KeyPrefixes(key) ==
    CASE key = "loose" -> {}
      [] key = "partial" -> {"year=", "month="}
      [] OTHER -> {"year=", "month=", "day="}

\* the day the date segments of the source keys name
KeyDay == DayOf(Epoch) - 1

\* if y and m and d: the three segments of the source key, <<>> when one is absent
KeyPartition(key) ==
    IF {"year=", "month=", "day="} \subseteq KeyPrefixes(key) THEN <<KeyDay>> ELSE <<>>

\* what get_object + json.loads find under a source key
Content(key) ==
    CASE key = "gone" -> Source("unreadable", EmptyEvent, {})
      [] key = "text" -> Source("notjson", EmptyEvent, {})
      [] key = "list" -> Source("nondict", EmptyEvent, {})
      [] key = "ok" -> Source("dict", BaseEvent("reserva_creada"), {})
      [] key = "loose" -> Source("dict", BaseEvent("pago_rechazado"), {})
      [] key = "partial" -> Source("dict", BaseEvent("pago_aprobado"), {})
      [] key = "dotted" ->
            Source("dict", Put(BaseEvent("reserva_creada"), "eventId", JStr("e1.parquet")),
                   {"eventId"})
      [] OTHER -> Source("dict", Put(BaseEvent("reserva_creada"), "precio", JInt(-5)), {"precio"})

\* a reference of the invocation event to a source object
Ref(eventSource, key) == [eventSource |-> eventSource, bucket |-> "raw", key |-> key]

\* the references an event may list: S3 notifications and one notification of another source
Refs == {Ref("aws:s3", k) : k \in SourceKeys} \cup {Ref("aws:sns", "ok")}

\* the sequences of at most n elements of S
RECURSIVE SeqsUpTo(_, _)
SeqsUpTo(S, n) ==
    IF n = 0 THEN {<<>>}
    ELSE LET shorter == SeqsUpTo(S, n - 1)
         IN  shorter \cup {Append(q, x) : q \in {r \in shorter : Len(r) = n - 1}, x \in S}

\* the invocation events: an S3 notification ("Records"), a list of objects, one
\* bucket/key pair, and an event of none of these forms
Requests ==
    {Request("Records", refs) : refs \in SeqsUpTo(Refs, MaxBatch)}
    \cup {Request("objects", refs) : refs \in SeqsUpTo(Refs, MaxBatch)}
    \cup {Request("single", <<r>>) : r \in Refs}
    \cup {Request("other", <<>>)}

\* _parse_s3_event: the records of the event; only S3 notifications of "Records" count
RECURSIVE S3Records(_)
S3Records(refs) ==
    IF refs = <<>> THEN <<>>
    ELSE IF Head(refs).eventSource = "aws:s3"
         THEN <<Head(refs)>> \o S3Records(Tail(refs))
         ELSE S3Records(Tail(refs))

_parse_s3_event(req) ==
    CASE req.form = "Records" -> S3Records(req.refs)
      [] req.form \in {"single", "objects"} -> req.refs
      [] OTHER -> <<>>

\* the result of _validate_and_normalize on a parsed payload, a non-object included
Validated(content, clock) ==
    IF content.kind = "nondict"
    THEN [event |-> EmptyEvent, errors |-> <<Msg("Payload is not JSON object", "", JNull)>>,
          warnings |-> <<>>, status |-> "corrupted"]
    ELSE LET r == _validate_and_normalize(content.ev, clock)
         IN  [event |-> r.event, errors |-> r.errors, warnings |-> r.warnings,
              status |-> FinalStatus(r)]

\* an entry of the results list: the record and the outcome of its processing
Result(rec, out) == [record |-> rec, out |-> out]

\* lambda_handler's except branch with the failing record dropped from the results
ExceptDrops(results, rec) == results

\* lambda_handler's except branch: the failing record gets an outcome of its own
Except(results, rec) == Append(results, Result(rec, Raised))

\* the destination key: date partition, type, event id and extension
KeyOut(date, envelope, ext) ==
    [date |-> date,
     type |-> StrOf(IF "type" \in DOMAIN envelope THEN envelope["type"] ELSE JStr("unknown")),
     id |-> StrOf(IF "eventId" \in DOMAIN envelope THEN envelope["eventId"] ELSE JStr("unknown")),
     ext |-> ext]

\* s.replace(".parquet", ".json") on the texts of the model: every occurrence is replaced
ReplaceParquet(s) == IF s = "e1.parquet" THEN "e1.json" ELSE s

\* key_json = key_out.replace(".parquet", ".json"): the replacement runs over the whole
\* key, the type and event id segments included (the date segments of the model's
\* source keys hold no ".parquet")
KeyJson(key_out) ==
    [date |-> key_out.date,
     type |-> IF key_out.type.sh = "text" THEN JStr(ReplaceParquet(key_out.type.s))
              ELSE key_out.type,
     id |-> IF key_out.id.sh = "text" THEN JStr(ReplaceParquet(key_out.id.s)) ELSE key_out.id,
     ext |-> "json"]

\* the object with the "format" entry of its Metadata
WithFormat(object, format) ==
    [bucket |-> object.bucket, key |-> object.key, from |-> object.from,
     envelope |-> object.envelope, diag |-> object.diag, format |-> format]

\* an object written by the handler: bucket, destination key, the source key it stems
\* from, the envelope and its diagnostics
Written(bucket, key, from, envelope, diag) ==
    [bucket |-> bucket, key |-> key, from |-> from, envelope |-> envelope, diag |-> diag]

HandlerInit ==
    /\ tz \in LocalZones
    /\ request \in Requests
    /\ records = <<>>
    /\ src = Source("none", EmptyEvent, {})
    /\ pc = "invoke"
    /\ event = EmptyEvent
    /\ errors = <<>>
    /\ warnings = <<>>
    /\ status = "none"
    /\ now = Epoch - 2 * HourSeconds
    /\ puts = <<>>
    /\ outcome = <<>>

\* lambda_handler up to the loop: _parse_s3_event raises when it finds no record, and
\* the outer except answers 500
ParseS3Event ==
    /\ pc = "invoke"
    /\ records' = _parse_s3_event(request)
    /\ pc' = IF _parse_s3_event(request) = <<>> THEN "return500" ELSE "loop"
    /\ UNCHANGED <<request, tz, src, event, errors, warnings, status, now, puts, outcome>>

\* _process_s3_object up to the store: read, parse, validate; a read/parse failure
\* returns at once, an exception out of the validation reaches lambda_handler
ProcessS3Object ==
    /\ pc = "loop" /\ records # <<>>
    /\ LET rec == Head(records)
           content == Content(rec.key)
       IN  IF content.kind \in {"unreadable", "notjson"}
           THEN /\ outcome' = Append(outcome, Result(rec,
                                  Outcome("corrupted", "read/parse", <<>>, <<>>, JStr("unknown"))))
                /\ records' = Tail(records)
                /\ pc' = "loop"
                /\ UNCHANGED <<src, event, errors, warnings, status, now>>
           ELSE IF content.kind = "dict" /\ Raises(content.ev)
           THEN /\ outcome' = Except(outcome, rec)
                /\ records' = Tail(records)
                /\ pc' = "loop"
                /\ UNCHANGED <<src, event, errors, warnings, status, now>>
           ELSE \E clock \in {c \in Clocks : c >= now} :
                  LET r == Validated(content, clock)
                  IN  /\ src' = content
                      /\ event' = r.event
                      /\ errors' = r.errors
                      /\ warnings' = r.warnings
                      /\ status' = r.status
                      /\ now' = clock
                      /\ pc' = "store"
                      /\ UNCHANGED <<records, outcome>>
    /\ UNCHANGED <<request, tz, puts>>

\* _store_valid_event: the date partition comes from the source key when it has one and
\* from the clock otherwise; parquet under key_out, or the JSON fallback under key_json
\* when parquet is unavailable or its encoding or write raised; a failure of the
\* fallback write reaches lambda_handler's except branch
StoreValidEvent ==
    /\ pc = "store" /\ status = "valid"
    /\ LET rec == Head(records)
           date == IF KeyPartition(rec.key) # <<>> THEN KeyPartition(rec.key) ELSE <<DayOf(now)>>
           key_out == KeyOut(date, event, "parquet")
       IN  \E way \in {"parquet", "json", "raise"} :
              /\ puts' = IF way = "raise" THEN puts
                         ELSE Append(puts, WithFormat(
                                  Written("curated",
                                          IF way = "parquet" THEN key_out ELSE KeyJson(key_out),
                                          rec.key, event, Diag(status, errors, warnings)),
                                  way))
              /\ outcome' = IF way = "raise" THEN Except(outcome, rec)
                            ELSE Append(outcome, Result(rec, Returned))
    /\ records' = Tail(records)
    /\ pc' = "loop"
    /\ UNCHANGED <<request, tz, src, event, errors, warnings, status, now>>

\* _store_invalid_event: the date partition is that of the clock; the write may raise
StoreInvalidEvent ==
    /\ pc = "store" /\ status # "valid"
    /\ LET rec == Head(records)
       IN  \E ok \in BOOLEAN :
              /\ puts' = IF ok
                         THEN Append(puts, Written("invalid", KeyOut(<<DayOf(now)>>, event, "json"),
                                                   rec.key, event, Diag(status, errors, warnings)))
                         ELSE puts
              /\ outcome' = IF ok THEN Append(outcome, Result(rec, Returned))
                            ELSE Except(outcome, rec)
    /\ records' = Tail(records)
    /\ pc' = "loop"
    /\ UNCHANGED <<request, tz, src, event, errors, warnings, status, now>>

\* the end of the loop: the 200 response with the results
Respond ==
    /\ pc = "loop" /\ records = <<>>
    /\ pc' = "return200"
    /\ UNCHANGED <<request, tz, src, event, errors, warnings, status, now, puts, outcome, records>>

HandlerNext ==
    \/ ParseS3Event \/ ProcessS3Object \/ StoreValidEvent \/ StoreInvalidEvent \/ Respond

HandlerSpec == HandlerInit /\ [][HandlerNext]_vars

\* ------------------------------------------------ properties of lambda_handler
\* the objects written so far that stem from source key k, in bucket b
WritesOf(k, b) == {i \in 1..Len(puts) : puts[i].from = k /\ puts[i].bucket = b}

\* C11: two writes that stem from the same source object go to the same destination
\* key of the same store, whenever each run happened and whichever format it wrote.
C11_RerunWritesSameKey ==
    \A k \in SourceKeys : \A b \in {"curated", "invalid"} :
        \A i, j \in WritesOf(k, b) : puts[i].key = puts[j].key

\* the part of the destination key that is the event's own (type and identifier) is
\* the same on every run that writes the same format, and so is the whole curated key
\* when the source key carries the date partition
RerunKeepsTypeAndId ==
    \A k \in SourceKeys : \A b \in {"curated", "invalid"} :
        \A i, j \in WritesOf(k, b) :
            puts[i].key.ext = puts[j].key.ext =>
                /\ puts[i].key.type = puts[j].key.type
                /\ puts[i].key.id = puts[j].key.id
                /\ (b = "curated" /\ KeyPartition(k) # <<>>) => puts[i].key = puts[j].key

\* the source-object references of the invocation, in input order
InputRecords ==
    IF request.form = "Records"
    THEN SelectSeq(request.refs, LAMBDA r : r.eventSource = "aws:s3")
    ELSE request.refs

\* C12: whatever fails on a record, the loop goes on: the results hold one entry per
\* record processed so far, in input order; the response is returned with one entry
\* per source-object reference, and the whole batch is refused only when the event
\* lists no reference at all.
C12_EveryRecordHasItsOutcome ==
    /\ pc \in {"loop", "store", "return200"} =>
          /\ Len(outcome) + Len(records) = Len(InputRecords)
          /\ \A i \in 1..Len(outcome) : outcome[i].record = InputRecords[i]
    /\ pc = "return200" => Len(outcome) = Len(InputRecords)
    /\ pc = "return500" => InputRecords = <<>>

\* C12 witness: a batch of two answered in full, the first record's write having
\* failed and the second record having been stored.
C12_Witness ==
    /\ pc = "return200" /\ Len(outcome) = 2
    /\ outcome[1].out.status = "error"
    /\ outcome[2].out.status \in {"valid", "invalid"}
    /\ \E j \in 1..Len(puts) : puts[j].from = outcome[2].record.key

\* the outcome a step has added to the results
Added == outcome'[Len(outcome')].out

\* C13: a step that adds an outcome with a validation status has written that event's
\* record, and a step whose write failed adds an outcome of status "error" that
\* carries the failure.
C13_ReportedStatusMeansWritten ==
    [][Len(outcome') > Len(outcome) =>
          IF Added.status = "error"
          THEN puts' = puts /\ Added.error # ""
          ELSE /\ Len(puts') = Len(puts) + 1
               /\ puts'[Len(puts')].diag.status = Added.status]_vars

\* the same of the store steps alone: a failed write is reported as "error", and a
\* validation status is reported only together with the write
StoreFailureSurfaces ==
    [][(pc = "store" /\ Len(outcome') > Len(outcome)) =>
          IF Added.status = "error"
          THEN puts' = puts /\ Added.error # ""
          ELSE /\ Len(puts') = Len(puts) + 1
               /\ puts'[Len(puts')].diag.status = Added.status]_vars

\* ------------------------------------------- properties of _process_s3_object
\* the positions of the validation stages
ValidationStages == {"basic", "ts"} \cup SchemaStages \cup {"business", "classify"}

\* C14: the outcome is corrupted only when the payload is no JSON text or no JSON
\* object, and then no validation stage is entered; a source object that could not
\* be retrieved is not reported as corrupted.
C14_CorruptedOnlyForUnparseable ==
    /\ (status = "corrupted" \/ \E i \in 1..Len(outcome) : outcome[i].status = "corrupted")
          => src.kind \in {"notjson", "nondict"}
    /\ src.kind \in {"notjson", "nondict"} => pc \notin ValidationStages

\* the same with the failed retrieval counted in: corrupted is never the status of a
\* JSON object, and the stages are skipped whenever there is none
CorruptedOnlyWithoutObject ==
    /\ (status = "corrupted" \/ \E i \in 1..Len(outcome) : outcome[i].status = "corrupted")
          => src.kind \in {"unreadable", "notjson", "nondict"}
    /\ src.kind \in {"unreadable", "notjson", "nondict"} => pc \notin ValidationStages

\* ------------------------------------------------ the curated record, read back
\* _store_valid_event: the keys kept out of the payload
base_fields == {"type", "ts", "eventId", "receivedAt", "requestId", "metadata", "validation"}

\* json.dumps of a JSON object: its text, holding each key with its value's literal
json_dumps(obj) == [text |-> "json", members |-> obj]

\* json.loads of such a text
json_loads(t) == t.members

\* _store_valid_event: the record written for the validated envelope
CuratedRecord(event_data) ==
    [eventType |-> StrOf(IF "type" \in DOMAIN event_data THEN event_data["type"] ELSE JStr("unknown")),
     ts |-> IF "ts" \in DOMAIN event_data THEN event_data["ts"] ELSE JNull,
     eventId |-> StrOf(IF "eventId" \in DOMAIN event_data THEN event_data["eventId"]
                       ELSE JStr("unknown")),
     payload_json |-> json_dumps([f \in DOMAIN event_data \ base_fields |-> event_data[f]])]

\* the envelope of the source object as the type-specific normalization finds it
BeforeNormalize ==
    CheckConstraints(CoerceTypes(CheckRequired(NormalizeTs(CheckBasic(St(src.ev, <<>>, <<>>))))))

\* a documented rewrite applies to field f of the source object: the value did not
\* have an accepted type and was coerced, or the type-specific normalization
\* (timestamp, currency, status canonicalization, list stringification) rewrote it
DocumentedRewrite(f) ==
    /\ HasSchema(src.ev)
    /\ \/ (ExpectedOf(src.ev, f) # <<>> /\ ~IsInstance(src.ev[f], ExpectedOf(src.ev, f)))
       \/ NormalizeByType(BeforeNormalize).event[f] # BeforeNormalize.event[f]

\* C15: the payload read back from the curated record of a valid event holds every
\* non-system field of the source object, with the source's value unless a documented
\* rewrite applies to the field.
C15_CuratedRoundTrip ==
    (pc = "returned" /\ src.kind = "dict") =>
        \A j \in 1..Len(puts) :
            puts[j].bucket = "curated" =>
                LET back == json_loads(CuratedRecord(puts[j].envelope).payload_json)
                IN  \A f \in DOMAIN src.ev \ SystemFields :
                        /\ f \in DOMAIN back
                        /\ ~DocumentedRewrite(f) => back[f] = src.ev[f]

\* the same of every field but a float that already had an accepted type and a source
\* field named "validation": those apart, the payload reproduces the source
RoundTripButFloatAndValidation ==
    (pc = "returned" /\ src.kind = "dict") =>
        \A j \in 1..Len(puts) :
            puts[j].bucket = "curated" =>
                LET back == json_loads(CuratedRecord(puts[j].envelope).payload_json)
                IN  \A f \in DOMAIN src.ev \ base_fields :
                        /\ f \in DOMAIN back
                        /\ (~DocumentedRewrite(f) /\ src.ev[f].k # "float") => back[f] = src.ev[f]

\* ------------------------------------------------------------ the scenarios
\* the keys of the reserva_creada event of Scenarios A and B
ScenarioKeys == {"type", "ts", "eventId", "reservaId", "vueloId", "precio", "userId"}

\* the source object is a reserva_creada event of exactly those keys, with a parseable
\* ts, its three identifiers non-empty texts and its precio an int or a float
ScenarioEvent ==
    /\ src.kind = "dict" /\ DOMAIN src.ev = ScenarioKeys
    /\ src.ev["type"] = JStr("reserva_creada")
    /\ CanParseIso(StrOf(src.ev["ts"]))
    /\ \A f \in {"reservaId", "vueloId", "userId"} : src.ev[f].k = "str" /\ NonEmpty(src.ev[f])
    /\ src.ev["precio"].k \in {"int", "float"}

\* C16: such an event is valid with no error when its precio is above zero, and
\* invalid with a constraint violation on precio when it is zero or below.
C16_ScenariosAB ==
    (Classified /\ ScenarioEvent) =>
        IF src.ev["precio"].n > 0
        THEN status = "valid" /\ errors = <<>>
        ELSE /\ status = "invalid"
             /\ \E e \in Range(errors) : e.m = "violates constraint" /\ e.f = "precio"

\* the same of every precio but a fraction between zero and one
ScenariosABButFractionBelowOne ==
    (Classified /\ ScenarioEvent
        /\ ~(src.ev["precio"].k = "float" /\ src.ev["precio"].n \in 1..(Denom - 1))) =>
        IF src.ev["precio"].n > 0
        THEN status = "valid" /\ errors = <<>>
        ELSE /\ status = "invalid"
             /\ \E e \in Range(errors) : e.m = "violates constraint" /\ e.f = "precio"

\* ------------------------------------------------------------ currency fields
\* the types that carry a currency, and the field that holds it
CurrencyTypes ==
    {"catalogo", "reservations.reservation.created", "flights.flight.created",
     "payments.payment.status_updated"}

CurrencyField == IF EventType(src.ev).s = "catalogo" THEN "moneda" ELSE "currency"

\* the source object is an event of such a type, with the universal fields and a
\* value in its currency field
HasCurrency ==
    /\ Enveloped /\ HasSchema(src.ev) /\ EventType(src.ev).s \in CurrencyTypes
    /\ CurrencyField \in DOMAIN src.ev

\* the uppercase form of a plain text
UpperText(t) == IF t \in DOMAIN UpperTab THEN UpperTab[t] ELSE t

\* the value is a text that is three letters A-Z once uppercased
ThreeLettersOnceUpper(v) == v.k = "str" /\ v.sh = "text" /\ UpperText(v.s) \in ThreeUpperLetters

\* C17: a currency that is three letters once uppercased is stored uppercased and
\* adds no error of its own; any other value adds an error on the field, and the
\* event is invalid.
C17_CurrencyUppercasedThenChecked ==
    (Classified /\ HasCurrency) =>
        LET f == CurrencyField
            v == src.ev[f]
        IN  IF ThreeLettersOnceUpper(v)
            THEN /\ event[f] = JStr(UpperText(v.s))
                 /\ \A e \in Range(errors) : e.f # f
            ELSE /\ status = "invalid"
                 /\ \E e \in Range(errors) : e.f = f

\* C17 witness: a lowercase code was given, the envelope holds its uppercase form and
\* the event is valid.
C17_Witness ==
    /\ pc = "store" /\ HasCurrency /\ status = "valid"
    /\ src.ev[CurrencyField] = JStr("usd")
    /\ event[CurrencyField] = JStr("USD")

\* ------------------------------------------------------------ bare timestamps
\* ts of the source object is a timestamp text without zone mark or offset
BareTs ==
    /\ Enveloped /\ CanParseIso(src.ev["ts"]) /\ src.ev["ts"].s = "naive"

\* C19: the normalized form of a bare ts denotes, in UTC, the wall-clock time the text
\* shows, whatever the local zone of the process.
C19_BareTsIsUtc ==
    (BareTs /\ pc \in AfterTs) => Instant(event["ts"]) = src.ev["ts"].n

\* the same in a process whose local zone is UTC
BareTsIsUtcInUtcProcess ==
    (tz = 0 /\ BareTs /\ pc \in AfterTs) => Instant(event["ts"]) = src.ev["ts"].n

\* ------------------------------------------------------------ _coerce_value
\* the candidates of expected whose conversion of v succeeds
Succeeding(v, expected) == {i \in 1..Len(expected) : _try_one(v, expected[i]).ok}

\* the least element of a non-empty set of numbers
Least(S) == CHOOSE i \in S : \A j \in S : i <= j

\* C20: on every value the coercion stage converts, _coerce_value yields a pair and
\* nothing else: (the conversion by the first candidate that succeeds, true), or
\* (the value as it was, false) when no candidate succeeds.
C20_FirstSucceedingCandidate ==
    (pc = "coerce") =>
        \A f \in DOMAIN event :
            LET expected == ExpectedOf(event, f)
                r == _coerce_value(event[f], expected)
                S == Succeeding(event[f], expected)
            IN  expected # <<>> =>
                    /\ r.ok \in BOOLEAN
                    /\ IF S = {} THEN r = Res(event[f], FALSE)
                       ELSE r = Res(_try_one(event[f], expected[Least(S)]).v, TRUE)

\* C20 witness: under (int, float) the int candidate fails on the value and the float
\* candidate converts it, and the coercion stage has stored the float.
C20_Witness ==
    /\ pc = "constraints"
    /\ \E f \in DOMAIN src.ev :
          /\ ExpectedOf(src.ev, f) = <<"int", "float">>
          /\ ~_try_one(src.ev[f], "int").ok
          /\ _try_one(src.ev[f], "float").ok
          /\ event[f] = _try_one(src.ev[f], "float").v

\* ------------------------------------------- the ingest lambda (tp-ingest-events)
REQUIRED_FIELDS == <<"type", "ts">>

\* the ingest lambda's EVENT_SCHEMAS: the fields it expects of the types it knows
IngestSchemas ==
    [t \in {"reserva_creada", "search.cart.item.added", "search_metric",
            "reservations.reservation.updated"} |->
        CASE t = "reserva_creada" -> <<"reservaId", "vueloId", "precio", "userId">>
          [] t = "search.cart.item.added" -> <<"userId", "flightId", "addedAt">>
          [] t = "search_metric" ->
                <<"flightsFrom", "flightsTo", "dateFrom", "dateTo", "resultsCount", "userId">>
          [] OTHER -> <<"reservationId", "newStatus">>]

\* the fields ts may be taken from, per type
TS_FIELD_MAP ==
    [t \in DOMAIN IngestSchemas |->
        CASE t = "reserva_creada" -> <<"ts", "occurredAt", "eventTime">>
          [] t = "search.cart.item.added" -> <<"addedAt">>
          [] t = "search_metric" -> <<"timestamp", "ts">>
          [] OTHER -> <<"reservationDate", "flightDate", "occurredAt", "eventTime">>]

\* x in (None, "")
NoneOrEmpty(v) == v.k = "null" \/ (v.k = "str" /\ v.sh = "text" /\ v.s = "")

\* a value that can be a dict key or looked up in one
Hashable(v) == v.k \notin {"list", "dict"}

\* a slip: the offset is applied but the fraction of a second is kept
NormalizeTsKeepsFraction(value) ==
    IF CanParseIso(value) THEN Res(JIso(value.n - value.o, value.m, "Z", 0), TRUE)
    ELSE Res(value, FALSE)

\* _normalize_ts: a naive time is taken as UTC, an aware one is moved to UTC, the
\* microseconds are dropped; [ok |-> FALSE] stands for the exception
_normalize_ts(value) ==
    IF CanParseIso(value)
    THEN Res(JIso(IF value.s = "naive" THEN value.n ELSE value.n - value.o, 0, "Z", 0), TRUE)
    ELSE Res(value, FALSE)

\* an invocation of the ingest lambda: the form of the event and the JSON object in it
IngestRequest(form, body) == [form |-> form, body |-> body]

\* the result of _parse_event_body: a JSON object, a JSON value that is no object
\* ("value"), or the error it answers with
Parsed(kind, body) == [kind |-> kind, body |-> body]

_parse_event_body(req) ==
    CASE req.form \in {"json", "base64json", "dict"} -> Parsed("dict", req.body)
      [] req.form = "jsonvalue" -> Parsed("value", EmptyEvent)
      [] req.form = "direct" ->
            IF "type" \in DOMAIN req.body \/ "ts" \in DOMAIN req.body
            THEN Parsed("dict", req.body) ELSE Parsed("error", EmptyEvent)
      [] OTHER -> Parsed("error", EmptyEvent)

_looks_like_search_metric(body) ==
    {"flightsFrom", "flightsTo", "dateFrom", "dateTo", "resultsCount", "timestamp", "userId"}
        \subseteq DOMAIN body

_looks_like_catalog_event(body) ==
    {"id", "id_vuelo", "aerolinea", "origen", "destino", "precio", "moneda", "despegue",
     "aterrizaje_local", "estado_vuelo", "capacidadAvion", "tipoAvion"} \subseteq DOMAIN body

\* lambda_handler: the type is inferred when it is absent or falsy
InferType(body) ==
    IF "type" \in DOMAIN body /\ Truthy(body["type"]) THEN body
    ELSE IF _looks_like_search_metric(body) THEN Put(body, "type", JStr("search_metric"))
    ELSE IF _looks_like_catalog_event(body) THEN Put(body, "type", JStr("catalogo"))
    ELSE body

\* the candidates of _ensure_ts_field for the body's type
TsCandidates(body) ==
    LET t == Get(body, "type")
    IN  IF Truthy(t) /\ t.k = "str" /\ t.sh = "text" /\ t.s \in DOMAIN TS_FIELD_MAP
        THEN TS_FIELD_MAP[t.s] ELSE <<>>

\* the first candidate that holds a truthy value, 0 when there is none
FirstTruthy(body, candidates) ==
    LET S == {i \in 1..Len(candidates) : Truthy(Get(body, candidates[i]))}
    IN  IF S = {} THEN 0 ELSE Least(S)

\* _ensure_ts_field: ts is kept when truthy, else taken from the first truthy alias,
\* else set to the clock; the lookup of an unhashable type raises
_ensure_ts_field(body, clock) ==
    IF "ts" \in DOMAIN body /\ Truthy(body["ts"]) THEN Res(body, TRUE)
    ELSE IF Truthy(Get(body, "type")) /\ ~Hashable(body["type"]) THEN Res(body, FALSE)
    ELSE LET c == TsCandidates(body)
             i == FirstTruthy(body, c)
         IN  IF i # 0 THEN Res(Put(body, "ts", StrOf(body[c[i]])), TRUE)
             ELSE Res(Put(body, "ts", JIso(clock, 0, "Z", 0)), TRUE)

\* _get_first over the keys the bodies of the model can hold
_get_first(d, keys) ==
    LET S == {i \in 1..Len(keys) : keys[i] \in DOMAIN d /\ ~NoneOrEmpty(d[keys[i]])}
    IN  IF S = {} THEN JNull ELSE d[keys[Least(S)]]

\* a or b
Or(a, b) == IF Truthy(a) THEN a ELSE b

\* _derive_reservation_update_fields: reservationId and newStatus are filled in from
\* their aliases; a change entry that is no object raises
_derive_reservation_update_fields(body) ==
    IF Get(body, "type") # JStr("reservations.reservation.updated") THEN Res(body, TRUE)
    ELSE LET rid == Or(_get_first(body, <<"reservationId">>), _get_first(body, <<"id">>))
             new == Or(_get_first(body, <<"newStatus">>),
                       _get_first(body, <<"toStatus", "targetStatus", "status">>))
             changes == Or(Get(body, "changes"), Or(Get(body, "diff"), JList(<<>>)))
             b1 == IF Truthy(rid) /\ "reservationId" \notin DOMAIN body
                   THEN Put(body, "reservationId", rid) ELSE body
             b2 == IF Truthy(new) /\ "newStatus" \notin DOMAIN b1
                   THEN Put(b1, "newStatus", new) ELSE b1
         IN  IF ~Truthy(new) /\ changes.k = "list"
                /\ \E i \in 1..Len(changes.l) : changes.l[i].k # "dict"
             THEN Res(body, FALSE)
             ELSE Res(b2, TRUE)

\* event_type = body.get("type") or "unknown"
IngestType(body) == Or(Get(body, "type"), JStr("unknown"))

\* schema_missing: the expected fields of the type that are absent, None or ""
SchemaMissing(body) ==
    LET t == IngestType(body)
    IN  IF t.k = "str" /\ t.sh = "text" /\ t.s \in DOMAIN IngestSchemas
        THEN SelectSeq(IngestSchemas[t.s],
                       LAMBDA f : f \notin DOMAIN body \/ NoneOrEmpty(body[f]))
        ELSE <<>>

\* enriched: the body with eventId, receivedAt, requestId and metadata set
Enriched(body, clock) ==
    Put(Put(Put(Put(body, "eventId", JStr("uuid4")), "receivedAt", JIso(clock, 0, "Z", 0)),
            "requestId", JStr("request")), "metadata", JDict)

\* a response of the ingest lambda
Response(statusCode) == [statusCode |-> statusCode]

\* the answer of the step and the end of the handler
Answer(statusCode) == outcome' = <<Response(statusCode)>> /\ pc' = "responded"

\* the bodies the producers send, before any alteration
IngestBodies ==
    {[type |-> JStr("reserva_creada"), ts |-> JIso(Epoch, 0, "Z", 0), reservaId |-> JStr("r1"),
      vueloId |-> JStr("v1"), precio |-> JInt(120), userId |-> JStr("u1")],
     [type |-> JStr("search.cart.item.added"), userId |-> JStr("u1"), flightId |-> JStr("f1"),
      addedAt |-> JIso(Epoch, 123456, "off", -3 * HourSeconds)],
     [flightsFrom |-> JStr("abc"), flightsTo |-> JStr("abc"), dateFrom |-> JIsoDate(Epoch),
      dateTo |-> JIsoDate(Epoch), resultsCount |-> JInt(1),
      timestamp |-> JIso(Epoch, 0, "naive", 0), userId |-> JStr("u1")],
     [type |-> JStr("reservations.reservation.updated"), id |-> JStr("r1"),
      status |-> JStr("abc")],
     [type |-> JStr("unknown_type"), ts |-> JIso(Epoch, 0, "naive", 0)],
     EmptyEvent}

\* the values a producer may put under a key
IngestPool ==
    {JStr(""), JStr("abc"), JNull, JInt(0), JInt(1), JBool(FALSE), JDict, JList(<<>>),
     JList(<<JStr("abc")>>), JIso(Epoch, 123456, "off", -3 * HourSeconds),
     JIso(Epoch, 0, "naive", 0), JIsoDate(Epoch - DaySeconds)}

\* the keys a producer may set or leave out
IngestKeys == {"type", "ts", "eventId", "error", "status", "changes"}

\* the forms of the invocation event that carry a JSON object
BodyForms == {"json", "base64json", "dict", "direct"}

\* the other forms: a batch, no body, undecodable base64, a body that is no JSON, a
\* JSON body that is no object, a body of another Python type, none of the known forms
BodilessForms == {"Records", "nobody", "badbase64", "badjson", "jsonvalue", "otherbody", "other"}

IngestInit ==
    /\ tz \in LocalZones
    /\ request \in {IngestRequest(f, b) : f \in BodyForms, b \in IngestBodies}
                   \cup {IngestRequest(f, EmptyEvent) : f \in BodilessForms}
    /\ src = Source("none", EmptyEvent, {})
    /\ pc = "request"
    /\ event = EmptyEvent
    /\ errors = <<>>
    /\ warnings = <<>>
    /\ status = "none"
    /\ now = Epoch
    /\ puts = <<>>
    /\ outcome = <<>>
    /\ records = <<>>

\* the producer sets one key of the body, or leaves one out, before sending it
Send ==
    /\ pc = "request"
    /\ \/ /\ request.form \in BodyForms
          /\ \/ \E f \in IngestKeys, v \in IngestPool :
                   request' = IngestRequest(request.form, Put(request.body, f, v))
             \/ \E f \in DOMAIN request.body :
                   request' = IngestRequest(request.form, Without(request.body, f))
       \/ request' = request
    /\ pc' = "invoke"
    /\ UNCHANGED <<tz, src, event, errors, warnings, status, now, puts, outcome, records>>

\* lambda_handler: _parse_event_body and the 400 on its error; a body that is no JSON
\* object makes the next statement raise, which the outer except answers with 500
ParseEventBody ==
    /\ pc = "invoke"
    /\ LET body == _parse_event_body(request)
       IN  IF body.kind = "error" \/ (body.kind = "dict" /\ "error" \in DOMAIN body.body)
           THEN Answer(400) /\ event' = event
           ELSE IF body.kind = "value" THEN Answer(500) /\ event' = event
           ELSE /\ event' = body.body
                /\ pc' = "infer"
                /\ outcome' = outcome
    /\ UNCHANGED <<request, tz, src, errors, warnings, status, now, puts, records>>

\* the inference of the type, _ensure_ts_field, and the check of the required fields
EnsureFields ==
    /\ pc = "infer"
    /\ \E clock \in Clocks :
          LET r == _ensure_ts_field(InferType(event), clock)
              missing == SelectSeq(REQUIRED_FIELDS,
                             LAMBDA f : f \notin DOMAIN r.v \/ NoneOrEmpty(r.v[f]))
          IN  /\ now' = clock
              /\ IF ~r.ok THEN Answer(500) /\ event' = event
                 ELSE IF missing # <<>> THEN Answer(400) /\ event' = r.v
                 ELSE event' = r.v /\ pc' = "normalize" /\ outcome' = outcome
    /\ UNCHANGED <<request, tz, src, errors, warnings, status, puts, records>>

\* the normalization of ts (400 on failure), the derived fields and the soft schema
\* check (an exception in either is answered with 500), and the enrichment
Enrich ==
    /\ pc = "normalize"
    /\ LET ts == IF event["ts"].k = "str" THEN _normalize_ts(event["ts"])
                 ELSE Res(event["ts"], FALSE)
           d == _derive_reservation_update_fields(Put(event, "ts", ts.v))
       IN  IF ~ts.ok THEN Answer(400) /\ event' = event /\ warnings' = warnings
           ELSE IF ~d.ok \/ ~Hashable(IngestType(d.v))
                THEN Answer(500) /\ event' = d.v /\ warnings' = warnings
           ELSE /\ event' = Enriched(d.v, now)
                /\ warnings' = SchemaMissing(d.v)
                /\ pc' = "put"
                /\ outcome' = outcome
    /\ UNCHANGED <<request, tz, src, errors, status, now, puts, records>>

\* put_object into the raw bucket, then 202; 500 when the write raises
PutRaw ==
    /\ pc = "put"
    /\ \E ok \in BOOLEAN :
          IF ok
          THEN /\ puts' = Append(puts, Written("raw",
                              [date |-> <<DayOf(now)>>, type |-> StrOf(IngestType(event)),
                               id |-> event["eventId"], ext |-> "json"],
                              "request", event, warnings))
               /\ Answer(202)
          ELSE puts' = puts /\ Answer(500)
    /\ UNCHANGED <<request, tz, src, event, errors, warnings, status, now, records>>

IngestNext == Send \/ ParseEventBody \/ EnsureFields \/ Enrich \/ PutRaw

IngestSpec == IngestInit /\ [][IngestNext]_vars

Constrained(ev) ==
    {f \in DOMAIN ev :
        \E i \in 1..Len(SchemaOf(ev).constraints) : SchemaOf(ev).constraints[i][1] = f}

\* the coercion of field f of the source object succeeded
CoercionSucceeded(f) ==
    /\ ExpectedOf(src.ev, f) # <<>>
    /\ _coerce_value(src.ev[f], ExpectedOf(src.ev, f)).ok

\* C21: when the constraint stage is entered, every field a constraint is about to be
\* evaluated on holds a value whose coercion succeeded and that is an instance of the
\* field's expected type.
C21_ConstraintsSeeCoercedValues ==
    (pc = "constraints" /\ Enveloped /\ HasSchema(src.ev)) =>
        \A f \in Constrained(event) :
            /\ CoercionSucceeded(f)
            /\ IsInstance(event[f], ExpectedOf(src.ev, f))

\* the order of the two stages alone: the constraint stage starts from the envelope the
\* completed coercion stage left, and every constrained field has a row in the types table
ConstraintsAfterWholeCoercion ==
    (pc = "constraints" /\ Enveloped /\ HasSchema(src.ev)) =>
        /\ event = CoerceTypes(CheckRequired(NormalizeTs(St(src.ev, <<>>, <<>>)))).event
        /\ \A f \in Constrained(event) : ExpectedOf(src.ev, f) # <<>>

\* ------------------------------------------------ a constraint that raises
\* the work lists as the constraint stage finds them, computed from the source object
AtConstraints == CoerceTypes(CheckRequired(NormalizeTs(St(src.ev, <<>>, <<>>))))

\* the constrained fields whose predicate gives the verdict c on the value it is called on
WithVerdict(c) ==
    {f \in Constrained(AtConstraints.event) :
        \E n \in ConstraintsOn(f) : ConstraintEval(n, AtConstraints.event[f]) = c}

\* the positions after the constraint stage
AfterConstraints == {"normalize", "unexpected", "business", "classify", "store", "returned"}

\* C22: a constraint that raises on a field's value is caught: the error list gets an
\* "Error validating constraint" entry naming the field, the other constraints are
\* still evaluated (a false one gets its "violates constraint" entry), the stages
\* after the constraints still run on the lists, and the event ends invalid.
C22_RaisingConstraintIsRecorded ==
    (Enveloped /\ HasSchema(src.ev) /\ WithVerdict("raise") # {}) =>
        /\ pc \in AfterConstraints =>
              /\ \A f \in WithVerdict("raise") :
                    Msg("Error validating constraint", f, JNull) \in Range(errors)
              /\ \A f \in WithVerdict("false") :
                    Msg("violates constraint", f, JNull) \in Range(errors)
        /\ pc = "classify" =>
              Cur = BusinessRules(ScanUnexpected(NormalizeByType(
                        CheckConstraints(AtConstraints))), now)
        /\ Classified => status = "invalid"

\* C22 witness: the capacity constraint raised on "", and the stages after it ran: the
\* per-type normalizer added its own error after the constraint's, and the business
\* rules added a freshness warning.
C22_Witness ==
    /\ pc = "store" /\ Enveloped /\ HasSchema(src.ev) /\ status = "invalid"
    /\ "capacity" \in WithVerdict("raise")
    /\ \E i, j \in 1..Len(errors) :
          /\ i < j
          /\ errors[i] = Msg("Error validating constraint", "capacity", JNull)
          /\ errors[j] = Msg("capacity must be integer", "capacity", JNull)
    /\ \E w \in Range(warnings) : w.m \in FreshnessTexts

\* ------------------------------------------------ totality of the classifier
\* the timestamp fields the per-type normalizer of an event type rewrites
NormalizedTimes(t) ==
    CASE t = "catalogo" -> {"despegue", "aterrizaje_local"}
      [] t = "search.cart.item.added" -> {"addedAt"}
      [] t = "search.search.performed" -> {"performedAt"}
      [] t = "reservations.reservation.created" -> {"reservedAt"}
      [] t = "reservations.reservation.updated" -> {"reservationDate", "flightDate"}
      [] t = "flights.flight.created" -> {"departureAt", "arrivalAt"}
      [] t = "flights.flight.updated" -> {"newDepartureAt", "newArrivalAt"}
      [] t = "payments.payment.status_updated" -> {"updatedAt"}
      [] t = "users.user.created" -> {"createdAt"}
      [] OTHER -> {}

\* the fields whose coercion reports failure: no candidate type converts the value
CoercionFailed ==
    {f \in DOMAIN src.ev :
        /\ ExpectedOf(src.ev, f) # <<>>
        /\ ~_coerce_value(src.ev[f], ExpectedOf(src.ev, f)).ok}

\* the fields the per-type normalizer fails on: a time it cannot parse, a capacity that
\* is no integer
NormalizerFailed ==
    LET ev == AtConstraints.event
        t == EventType(ev).s
    IN  {f \in DOMAIN ev \cap NormalizedTimes(t) :
            Truthy(ev[f]) /\ ~CanParseIso(StrOf(ev[f]))}
        \cup {f \in DOMAIN ev \cap {"capacity"} :
                /\ t = "flights.aircraft_or_airline.updated"
                /\ ev[f].k # "null" /\ ~CanInt(ev[f])}

\* C23: on a JSON object with the three universal fields the classifier never lets an
\* exception out, and once it has returned, every failure of a coercion, of a
\* constraint or of the per-type normalizer has an entry in the error list naming
\* its field.
C23_ClassificationIsTotal ==
    Enveloped =>
        /\ pc # "raised"
        /\ (Classified /\ HasSchema(src.ev)) =>
              /\ \A f \in CoercionFailed :
                    \E e \in Range(errors) : e.m = "must be of type" /\ e.f = f
              /\ \A f \in WithVerdict("raise") :
                    Msg("Error validating constraint", f, JNull) \in Range(errors)
              /\ \A f \in NormalizerFailed : \E e \in Range(errors) :
                    e.f = f /\ e.m \in {"invalid timestamp", "capacity must be integer"}

\* the same with the booleans the coercion refuses left aside: no exception gets out
\* and every other failure has its entry
TotalButRefusedBool ==
    Enveloped =>
        /\ pc # "raised"
        /\ (Classified /\ HasSchema(src.ev)) =>
              /\ \A f \in CoercionFailed :
                    src.ev[f].k # "bool" =>
                        \E e \in Range(errors) : e.m = "must be of type" /\ e.f = f
              /\ \A f \in WithVerdict("raise") :
                    Msg("Error validating constraint", f, JNull) \in Range(errors)
              /\ \A f \in NormalizerFailed : \E e \in Range(errors) :
                    e.f = f /\ e.m \in {"invalid timestamp", "capacity must be integer"}

\* ------------------------------------------------------ catalogo: estado_vuelo
\* the positions after the per-type normalizer
AfterNormalize == {"unexpected", "business", "classify", "store", "returned"}

\* the value is a text whose trimmed lower-case form is a key of the table
KnownEstado(v) ==
    v.k = "str" /\ v.sh = "text" /\ StripLower(v.s) \in DOMAIN FLIGHT_STATUS_CANONICAL

\* the "Unknown estado_vuelo" warnings of the list
UnknownEstadoWarnings == {i \in 1..Len(warnings) : warnings[i].m = "Unknown estado_vuelo"}

EstadoCanonicalized ==
    /\ pc = "store" /\ Enveloped /\ EventType(src.ev) = JStr("catalogo")
    /\ "estado_vuelo" \in DOMAIN src.ev /\ src.ev["estado_vuelo"] = JStr(" On Time ")
    /\ event["estado_vuelo"] = JStr("En hora")

\* -------------------------------------------------------- unexpected fields
\* the positions after the scan for unexpected fields
AfterScan == {"business", "classify", "store", "returned"}

\* the fields the schema of the source object's type declares
Declared == Range(SchemaOf(src.ev).required) \cup Range(SchemaOf(src.ev).optional)

\* the "Unexpected field" warnings of the list that name field f
UnexpectedWarnings(f) ==
    {i \in 1..Len(warnings) : warnings[i].m = "Unexpected field for type" /\ warnings[i].f = f}

\* C25: once the scan of an event of a known type has run, every field of the envelope
\* that is neither declared (required or optional) nor a system field has exactly
\* one "Unexpected field" warning and no error names it; a declared field or a
\* system field has no such warning.
C25_UndeclaredFieldWarnsOnce ==
    (Enveloped /\ HasSchema(src.ev) /\ pc \in AfterScan) =>
        \A f \in DOMAIN event :
            IF f \notin Declared \cup SystemFields
            THEN /\ Cardinality(UnexpectedWarnings(f)) = 1
                 /\ \A e \in Range(errors) : e.f # f
            ELSE UnexpectedWarnings(f) = {}

\* C25 witness: an event with an undeclared field that holds a value no declared field
\* would accept has been classified valid with the one warning.
C25_Witness ==
    /\ pc = "store" /\ Enveloped /\ HasSchema(src.ev) /\ status = "valid"
    /\ "extraField" \in DOMAIN event /\ event["extraField"] = JBool(TRUE)
    /\ Cardinality(UnexpectedWarnings("extraField")) = 1

\* a system field that is not one of the three universal ones is passed over in silence
SystemFieldPassed ==
    /\ pc = "store" /\ Enveloped /\ HasSchema(src.ev)
    /\ "metadata" \in DOMAIN event /\ warnings = <<>>

\* ----------------------------------------------- _store_valid_event: the fallback
\* the curated key of the record being stored, as built before the write
CuratedKeyOut ==
    KeyOut(IF KeyPartition(Head(records).key) # <<>> THEN KeyPartition(Head(records).key)
           ELSE <<DayOf(now)>>,
           event, "parquet")

\* the same key with the extension .json in place of .parquet
SameKeyAsJson(key_out) == [key_out EXCEPT !.ext = "json"]

\* the write _store_valid_event has just made: the last object, the one of this step
StoredNow == puts' # puts

\* C26: _store_valid_event writes the record either with the format marker "parquet"
\* under key_out or, in the fallback, with the marker "json" under the same key
\* with the extension changed to .json; in both cases the object holds the same
\* record of the envelope and its diagnostics, and the caller gets its result.
C26_FallbackSameRecordJsonKey ==
    [][(pc = "store" /\ status = "valid" /\ StoredNow) =>
          \E format \in {"parquet", "json"} :
              /\ puts' = Append(puts, WithFormat(
                             Written("curated",
                                     IF format = "parquet" THEN CuratedKeyOut
                                     ELSE SameKeyAsJson(CuratedKeyOut),
                                     Head(records).key, event, Diag(status, errors, warnings)),
                             format))
              /\ outcome' = Append(outcome, Result(Head(records), Returned))]_vars

\* the same for the events whose type and identifier hold no ".parquet": there the
\* fallback key differs from key_out in the extension only
FallbackKeepsPlainKey ==
    [][(/\ pc = "store" /\ status = "valid" /\ StoredNow
        /\ KeyJson(CuratedKeyOut) = SameKeyAsJson(CuratedKeyOut)) =>
          \E format \in {"parquet", "json"} :
              /\ puts' = Append(puts, WithFormat(
                             Written("curated",
                                     IF format = "parquet" THEN CuratedKeyOut
                                     ELSE SameKeyAsJson(CuratedKeyOut),
                                     Head(records).key, event, Diag(status, errors, warnings)),
                             format))
              /\ outcome' = Append(outcome, Result(Head(records), Returned))]_vars

\* ------------------------------------------ _store_valid_event: the curated key
\* the curated objects written so far
CuratedWrites == {i \in 1..Len(puts) : puts[i].bucket = "curated"}

\* the source key of a write carries the three date segments
Partitioned(i) == {"year=", "month=", "day="} \subseteq KeyPrefixes(puts[i].from)

\* the days the clock has shown up to now: the processing time of a write made earlier
\* in the batch is one of them
DaysSoFar == {DayOf(c) : c \in {x \in Clocks : x <= now}}

\* the date segments of a curated key are those of the source key when it has the three,
\* and those of the processing time when one is absent
DateReusedOrProcessingTime(i) ==
    IF Partitioned(i) THEN puts[i].key.date = <<KeyDay>>
    ELSE \E d \in DaysSoFar : puts[i].key.date = <<d>>

\* C27: every curated key is made of the date segments, reused from the source key
\* when it has year=, month= and day= and taken from the processing time only when
\* one is absent, then type=<eventType>, then <eventId>.<ext> with the extension of
\* the format written.
C27_CuratedKeyShape ==
    \A i \in CuratedWrites :
        /\ DateReusedOrProcessingTime(i)
        /\ puts[i].key.type = StrOf(puts[i].envelope["type"])
        /\ puts[i].key.id = StrOf(puts[i].envelope["eventId"])
        /\ puts[i].key.ext \in {"parquet", "json"}

\* the date segments alone, for every curated write; and the whole shape for the writes
\* that are parquet or whose type and identifier hold no ".parquet"
CuratedKeyDateAndPlainShape ==
    \A i \in CuratedWrites :
        /\ DateReusedOrProcessingTime(i)
        /\ puts[i].key.ext = puts[i].format
        /\ (puts[i].format = "parquet" \/ puts[i].from # "dotted") =>
              /\ puts[i].key.type = StrOf(puts[i].envelope["type"])
              /\ puts[i].key.id = StrOf(puts[i].envelope["eventId"])

\* a source key with year= and month= but no day= gets the date of the processing time,
\* on a day other than the one its segments name
PartialKeyUsesClock ==
    \E i \in CuratedWrites :
        puts[i].from = "partial" /\ puts[i].key.date # <<KeyDay>>

\* --------------------------------------------- coercion of an accepted value
\* the fields of the source object that have a row in the types table and already hold
\* an instance of an accepted type that is no boolean
AlreadyTyped ==
    {f \in DOMAIN src.ev :
        /\ ExpectedOf(src.ev, f) # <<>>
        /\ IsInstance(src.ev[f], ExpectedOf(src.ev, f))
        /\ src.ev[f].k # "bool"}

\* C28: when the coercion stage has run, every field that already held an instance of
\* one of its accepted types (no boolean) holds the same value of the same type.
C28_CoercionKeepsAcceptedValue ==
    (pc = "constraints" /\ Enveloped /\ HasSchema(src.ev)) =>
        \A f \in AlreadyTyped : event[f] = src.ev[f]

\* the same with the floats left aside: every other accepted value is kept as it is
CoercionKeepsAcceptedButFloat ==
    (pc = "constraints" /\ Enveloped /\ HasSchema(src.ev)) =>
        \A f \in AlreadyTyped : src.ev[f].k # "float" => event[f] = src.ev[f]

\* the accepted values the stage is run on include texts, integers, floats and lists
AcceptedKindsCovered ==
    /\ pc = "constraints" /\ Enveloped /\ HasSchema(src.ev)
    /\ \E f \in AlreadyTyped : src.ev[f].k = "list" /\ src.altered = {f}

\* ------------------------------------------------------- exclusive routing
\* C29: one run of _process_s3_object writes at most one object; the object of a valid
\* event is in the curated bucket and that of an invalid or corrupted event in the
\* quarantine bucket, never the other way round; the diagnostics written carry the
\* status the classifier decided, and the outcome returned after the write
\* carries the same status.
C29_RoutingExclusive ==
    /\ Len(puts) <= 1
    /\ \A j \in 1..Len(puts) :
          /\ puts[j].diag.status = status
          /\ puts[j].diag.status = "valid" <=> puts[j].bucket = "curated"
          /\ puts[j].diag.status \in {"invalid", "corrupted"} <=> puts[j].bucket = "invalid"
          /\ pc = "returned" /\ Len(outcome) = 1 /\ outcome[1].status = puts[j].diag.status

\* C29 witness: a corrupted payload (JSON, but no object) has been written once, to the
\* quarantine bucket, and the outcome returned says corrupted.
C29_Witness ==
    /\ pc = "returned" /\ src.kind = "nondict"
    /\ Len(puts) = 1 /\ puts[1].bucket = "invalid" /\ puts[1].diag.status = "corrupted"
    /\ outcome = <<Returned>> /\ outcome[1].status = "corrupted"

\* the curated side is reached too, through the fallback
ValidRoutedOnce ==
    /\ pc = "returned" /\ Len(puts) = 1 /\ puts[1].bucket = "curated"
    /\ puts[1].format = "json" /\ outcome[1].status = "valid"

\* ------------------------------------------------- independence of the clock
\* a warning that is none of the two freshness warnings
NotFreshness(w) == w.m \notin FreshnessTexts

\* the result of a run of _validate_and_normalize on the source object at the clock
\* reading c, in the same process
RunAt(c) == _validate_and_normalize(src.ev, c)

\* C30: whatever the clock reads, a run of _validate_and_normalize on the source object
\* returns the status, the error list (in order) and the envelope of the run that
\* was made, and a warning list that differs from its warning list by freshness
\* warnings only.
C30_ClockChangesFreshnessOnly ==
    (pc = "classify" /\ src.kind = "dict") =>
        \A c \in Clocks :
            /\ FinalStatus(RunAt(c)) = FinalStatus(Cur)
            /\ RunAt(c).errors = errors
            /\ RunAt(c).event = event
            /\ SelectSeq(RunAt(c).warnings, NotFreshness) = SelectSeq(warnings, NotFreshness)

\* C30 witness: an event that carries a freshness warning and another warning after
\* it; a run at another clock reading gives another warning list.
C30_Witness ==
    /\ pc = "classify" /\ src.kind = "dict"
    /\ \E i, j \in 1..Len(warnings) :
          i < j /\ warnings[i].m \in FreshnessTexts /\ NotFreshness(warnings[j])
    /\ \E c \in Clocks : RunAt(c).warnings # warnings

====
